---- MODULE Spec2Model ----
(***************************************************************************)
(* sd-image-recovery: the recovery session (core/recovery.py), the device  *)
(* safety decision (core/device.py) and the external operations the        *)
(* session drives (diskutil, photorec, the organizer, the file system).    *)
(*                                                                         *)
(* One behaviour of Spec is the construction of a RecoverySession and one  *)
(* call of its run, made directly, through recover, or by the recover      *)
(* command of cli.py, which then turns the result into an exit status.     *)
(* The environment chooses the target, what diskutil reports about it, the *)
(* user's answer, the result of every external operation, and the moments  *)
(* at which a KeyboardInterrupt is delivered.                              *)
(*                                                                         *)
(* The parts of the session that are functions of their arguments are      *)
(* exercised on their own: is_safe_device (SpecSafe), one call of          *)
(* RecoveryOrganizer.organize (SpecOrganize) and a sequence of such calls  *)
(* into one output directory (SpecReorganize), is_suspicious_jpeg          *)
(* (SpecSuspicious), PhotoRecWrapper._parse_results (SpecParse),           *)
(* PhotoRecWrapper.build_command (SpecCommand) and parse_size (SpecSize).  *)
(***************************************************************************)
EXTENDS Integers, Sequences, FiniteSets, TLC

None == "None"

\* An Optional[...] attribute that holds a record: <<>> is Python's None and
\* <<v>> holds v.
Nothing == <<>>
Some(v) == <<v>>
The(opt) == opt[1]

(* ----------------------------- bounds ---------------------------------- *)

\* Largest disk ordinal the environment offers (/dev/disk0 .. /dev/diskN).
MaxDiskNumber == 3

\* Largest threshold, in GiB, tried next to the default when is_safe_device
\* is exercised on its own (SpecSafe).
MaxSmallThreshold == 2

(* ------------------------ program constants ---------------------------- *)

\* is_safe_device(device_info, max_size_gb = 512)
DEFAULT_MAX_SIZE_GB == 512

(* ------------------------------ sizes ---------------------------------- *)
(* Python integers are unbounded; a byte count n is kept exactly as the    *)
(* pair [gib |-> n \div 1024^3, rem |-> n % 1024^3].                       *)

Size(g, r) == [gib |-> g, rem |-> r]

SizeGiBs == (0 .. MaxSmallThreshold + 1)
              \cup {32, DEFAULT_MAX_SIZE_GB - 1, DEFAULT_MAX_SIZE_GB,
                    DEFAULT_MAX_SIZE_GB + 1, 2048}

Sizes == {Size(g, r) : g \in SizeGiBs, r \in {0, 1}}

\* The sizes diskutil reports in a session: a common card, the threshold
\* itself, one byte above it, and a large disk.
SessionSizes == {Size(32, 0), Size(DEFAULT_MAX_SIZE_GB, 0),
                 Size(DEFAULT_MAX_SIZE_GB, 1), Size(2048, 0)}

\* (a comparison that also rejects a size equal to the threshold)
ExceedsThreshold_GE(size_bytes, max_size_gb) ==
    size_bytes.gib >= max_size_gb

\* size_bytes > max_size_gb * 1024 * 1024 * 1024
ExceedsThreshold(size_bytes, max_size_gb) ==
    \/ size_bytes.gib > max_size_gb
    \/ size_bytes.gib = max_size_gb /\ size_bytes.rem > 0

(* --------------------------- device.py --------------------------------- *)

\* device_number: the ordinal parsed from the path, -1 when there is none.
DiskNumbers == -1 .. MaxDiskNumber

\* What `diskutil info` prints for the target, reduced to the fields
\* get_device_info reads.
DiskutilInfos ==
    [number           : DiskNumbers,
     location_internal: BOOLEAN,     \* Device Location == "internal"
     removable_media  : BOOLEAN,     \* Removable Media == "removable"
     protocol_usb     : BOOLEAN,     \* "usb" in Protocol
     size             : SessionSizes,
     mount_point      : {None, "/Volumes/SD"}]

\* A path string is the sequence of its parts: '/dev/disk2' is
\* <<"/dev/", "disk", "2">> and '/dev/rdisk2' is <<"/dev/", "r", "disk", "2">>.
\* device_path.replace('/dev/disk', '/dev/rdisk'): '/dev/' occurs only at
\* the start of the paths tried.
RawDevicePath(path) ==
    IF Len(path) >= 2 /\ path[1] = "/dev/" /\ path[2] = "disk"
    THEN <<"/dev/", "r", "disk">> \o SubSeq(path, 3, Len(path))
    ELSE path

\* (a get_device_info that takes Device Location and Removable Media as
\* diskutil prints them, whatever the protocol)
get_device_info_no_usb_override(path, info) ==
    [device_number |-> info.number,
     is_internal   |-> info.location_internal,
     is_removable  |-> info.removable_media,
     size_bytes    |-> info.size,
     mount_point   |-> info.mount_point,
     raw_device_path |-> RawDevicePath(path)]

\* get_device_info(device_path), info being what diskutil prints for it.
get_device_info(path, info) ==
    [device_number |-> info.number,
     is_internal   |-> IF info.protocol_usb THEN FALSE ELSE info.location_internal,
     is_removable  |-> IF info.protocol_usb THEN TRUE ELSE info.removable_media,
     size_bytes    |-> info.size,
     mount_point   |-> info.mount_point,
     raw_device_path |-> RawDevicePath(path)]

DeviceInfos ==
    [device_number : DiskNumbers,
     is_internal   : BOOLEAN,
     is_removable  : BOOLEAN,
     size_bytes    : Sizes,
     mount_point   : {None},
     raw_device_path : {<<"/dev/", "r", "disk", "2">>}]

R_DISK01    == "appears to be an internal disk (disk0/disk1)"
R_INTERNAL  == "is marked as internal"
R_TOO_LARGE == "is larger than max_size_gb"
R_NOT_REMOVABLE == "is not marked as removable"

is_safe_device(device_info, max_size_gb) ==
    IF device_info.device_number <= 1 THEN <<FALSE, R_DISK01>>
    ELSE IF device_info.is_internal THEN <<FALSE, R_INTERNAL>>
    ELSE IF ExceedsThreshold(device_info.size_bytes, max_size_gb)
         THEN <<FALSE, R_TOO_LARGE>>
    ELSE IF ~device_info.is_removable THEN <<FALSE, R_NOT_REMOVABLE>>
    ELSE <<TRUE, None>>

(* ------------------------- utils/validation.py ------------------------- *)

\* The result of a call: the value returned, or the exception raised.
Return(v) == [raised |-> None, returned |-> v]

\* A metadata dict, reduced to the keys is_suspicious_jpeg reads.  A key that
\* is absent is Nothing, a key that is present is Some(value); `others` says
\* whether the dict has further keys (format, mode, has_exif, ...).
Dict(w, h, s, o) == [width |-> w, height |-> h, size_bytes |-> s, others |-> o]

\* not metadata, for a dict: it has no key at all.
DictEmpty(d) ==
    d.width = Nothing /\ d.height = Nothing /\ d.size_bytes = Nothing /\ ~d.others

\* metadata.get(key, default)
Get(entry, default) == IF entry = Nothing THEN default ELSE The(entry)

Max(a, b) == IF a >= b THEN a ELSE b
Min(a, b) == IF a <= b THEN a ELSE b

\* num / den > limit, the quotient taken exactly (den # 0).
QuotientAbove(num, den, limit) ==
    \/ num \div den > limit
    \/ num \div den = limit /\ num % den # 0

\* (an aspect-ratio test that also flags a ratio of exactly 10)
is_suspicious_jpeg_ratio_ge(metadata) ==
    IF metadata = Nothing \/ DictEmpty(The(metadata)) THEN Return(TRUE)
    ELSE LET d == The(metadata) IN
         IF Get(d.width, 0) < 10 \/ Get(d.height, 0) < 10 THEN Return(TRUE)
         ELSE IF Get(d.size_bytes, 0) < 1024 THEN Return(TRUE)
         ELSE LET width == Get(d.width, 1)
                  height == Get(d.height, 1)
              IN  IF Min(width, height) = 0
                  THEN [raised |-> "ZeroDivisionError", returned |-> FALSE]
                  ELSE Return(Max(width, height) \div Min(width, height) >= 10)

\* is_suspicious_jpeg(metadata): metadata is None (Nothing) or a dict.
is_suspicious_jpeg(metadata) ==
    IF metadata = Nothing \/ DictEmpty(The(metadata)) THEN Return(TRUE)
    ELSE LET d == The(metadata) IN
         IF Get(d.width, 0) < 10 \/ Get(d.height, 0) < 10 THEN Return(TRUE)
         ELSE IF Get(d.size_bytes, 0) < 1024 THEN Return(TRUE)
         ELSE LET width == Get(d.width, 1)
                  height == Get(d.height, 1)
              IN  IF Min(width, height) = 0
                  THEN [raised |-> "ZeroDivisionError", returned |-> FALSE]
                  ELSE Return(QuotientAbove(Max(width, height),
                                            Min(width, height), 10))

\* The widths and heights tried: below, at and above the 10-pixel limit, and
\* pairs whose ratio is exactly 10 (10:100, 11:110) or just above it
\* (10:101, 11:111).
Dimensions == {-1, 0, 9, 10, 11, 100, 101, 110, 111}

\* The byte sizes tried: around the 1024-byte limit.
ByteSizes == {0, 1023, 1024, 1025}

Optional(S) == {Nothing} \cup {Some(x) : x \in S}

Metadatas ==
    {Nothing} \cup
    {Some(Dict(w, h, sz, o)) : w \in Optional(Dimensions),
                               h \in Optional(Dimensions),
                               sz \in Optional(ByteSizes),
                               o \in BOOLEAN}

\* A file handed to the organizer, by what happens when it is processed:
\*   "unreadable"   shutil.copy2 raises
\*   "vanishes"     the copy is made, new_path.stat() raises
\*   "undecodable"  Image.open raises an OSError (truncated, not an image)
\*   "unexpected"   the decoder raises some other Exception
\*   "not_jpeg"     it opens, as another format (a PNG named .jpg)
\*   "corrupt"      it opens as JPEG, img.verify() raises
\*   "jpeg"         a sound JPEG of the given width, height and byte size
File(k, w, h, sz) == [kind |-> k, width |-> w, height |-> h, size_bytes |-> sz]

NonJpegKinds == {"unreadable", "vanishes", "undecodable", "unexpected",
                 "not_jpeg", "corrupt"}

\* A 640x480 picture, a 5x5 picture and a picture of less than 1 KB.
Pictures == {File("jpeg", 640, 480, 2048), File("jpeg", 5, 5, 2048),
             File("jpeg", 640, 480, 500)}

Files == {File(k, 640, 480, 2048) : k \in NonJpegKinds} \cup Pictures

\* (a validate_jpeg that lets the error of img.verify() escape)
validate_jpeg_verify_uncaught(file) ==
    CASE file.kind \in {"unreadable", "vanishes", "undecodable"} ->
             Return(<<FALSE, Nothing>>)
      [] file.kind = "unexpected" -> Return(<<FALSE, Nothing>>)
      [] file.kind = "not_jpeg" -> Return(<<FALSE, Nothing>>)
      [] file.kind = "corrupt" ->
             [raised |-> "SyntaxError", returned |-> <<FALSE, Nothing>>]
      [] file.kind = "jpeg" ->
             Return(<<TRUE, Some(Dict(Some(file.width), Some(file.height),
                                      Some(file.size_bytes), TRUE))>>)

\* validate_jpeg(file_path): (is_valid, metadata).  Every exception of
\* Image.open, of the metadata extraction and of img.verify() is caught.
validate_jpeg(file) ==
    CASE file.kind \in {"unreadable", "vanishes", "undecodable"} ->
             Return(<<FALSE, Nothing>>)          \* except (IOError, OSError)
      [] file.kind = "unexpected" ->
             Return(<<FALSE, Nothing>>)          \* except Exception
      [] file.kind = "not_jpeg" ->
             Return(<<FALSE, Nothing>>)          \* img.format is not JPEG
      [] file.kind = "corrupt" ->
             Return(<<FALSE, Nothing>>)          \* img.verify() raised
      [] file.kind = "jpeg" ->
             Return(<<TRUE, Some(Dict(Some(file.width), Some(file.height),
                                      Some(file.size_bytes), TRUE))>>)

(* --------------------------- core/organizer.py ------------------------- *)

RECURSIVE DecimalDigits(_)
\* The decimal digits of n >= 0, most significant first.
DecimalDigits(n) ==
    IF n < 10 THEN <<n>> ELSE Append(DecimalDigits(n \div 10), n % 10)

RECURSIVE ZeroPad(_, _)
ZeroPad(digits, width) ==
    IF Len(digits) >= width THEN digits ELSE ZeroPad(<<0>> \o digits, width)

\* (the index printed without zero padding)
Format05d_unpadded(index) == DecimalDigits(index)

\* f"{index:05d}"
Format05d(index) == ZeroPad(DecimalDigits(index), 5)

\* f"image_{index:05d}.jpg"
NewFilename(index) ==
    [stem |-> "image_", number |-> Format05d(index), suffix |-> ".jpg"]

\* What one call of _process_file does: the exception it raises (None if it
\* returns), the RecoveredFile it returns (Nothing for `return None`),
\* whether the copy was made, the operation that failed, and the result of
\* validate_jpeg when it was called.
Processed(exception, recovered, copy_made, failed_op, validation) ==
    [raised |-> exception, returned |-> recovered, copied |-> copy_made,
     error |-> failed_op, validation |-> validation]

RecoveredFile(source_file, index, is_valid, is_suspicious, metadata) ==
    [original_path |-> source_file.path,
     new_filename  |-> NewFilename(index),
     is_valid      |-> is_valid,
     is_suspicious |-> is_suspicious,
     size_bytes    |-> source_file.size_bytes,
     width  |-> IF metadata = Nothing THEN Nothing ELSE The(metadata).width,
     height |-> IF metadata = Nothing THEN Nothing ELSE The(metadata).height]

\* (a _process_file whose defaults call an unvalidated file valid)
_process_file_default_valid(source_file, index, validate) ==
    IF source_file.kind = "unreadable"
    THEN Processed(None, Nothing, FALSE, "copy2", Nothing)
    ELSE IF source_file.kind = "vanishes"
    THEN Processed("OSError", Nothing, TRUE, "stat", Nothing)
    ELSE IF ~validate
    THEN Processed(None,
                   Some(RecoveredFile(source_file, index, TRUE, FALSE, Nothing)),
                   TRUE, None, Nothing)
    ELSE LET v == validate_jpeg(source_file) IN
         IF v.raised # None
         THEN Processed(v.raised, Nothing, TRUE, "validate_jpeg", Some(v))
         ELSE LET is_valid == v.returned[1]
                  metadata == v.returned[2]
                  truthy == metadata # Nothing /\ ~DictEmpty(The(metadata))
                  s == IF truthy THEN is_suspicious_jpeg(metadata)
                       ELSE Return(FALSE)
              IN  IF s.raised # None
                  THEN Processed(s.raised, Nothing, TRUE,
                                 "is_suspicious_jpeg", Some(v))
                  ELSE Processed(None,
                           Some(RecoveredFile(source_file, index, is_valid,
                                    s.returned,
                                    IF truthy THEN metadata ELSE Nothing)),
                           TRUE, None, Some(v))

\* (a _process_file that asks is_suspicious_jpeg about every validated file,
\* with or without metadata)
_process_file_always_checks_suspicion(source_file, index, validate) ==
    IF source_file.kind = "unreadable"
    THEN Processed(None, Nothing, FALSE, "copy2", Nothing)
    ELSE IF source_file.kind = "vanishes"
    THEN Processed("OSError", Nothing, TRUE, "stat", Nothing)
    ELSE IF ~validate
    THEN Processed(None,
                   Some(RecoveredFile(source_file, index, FALSE, FALSE, Nothing)),
                   TRUE, None, Nothing)
    ELSE LET v == validate_jpeg(source_file) IN
         IF v.raised # None
         THEN Processed(v.raised, Nothing, TRUE, "validate_jpeg", Some(v))
         ELSE LET is_valid == v.returned[1]
                  metadata == v.returned[2]
                  truthy == metadata # Nothing /\ ~DictEmpty(The(metadata))
                  s == is_suspicious_jpeg(metadata)
              IN  IF s.raised # None
                  THEN Processed(s.raised, Nothing, TRUE,
                                 "is_suspicious_jpeg", Some(v))
                  ELSE Processed(None,
                           Some(RecoveredFile(source_file, index, is_valid,
                                    s.returned,
                                    IF truthy THEN metadata ELSE Nothing)),
                           TRUE, None, Some(v))

\* _process_file(source_file, index, validate)
_process_file(source_file, index, validate) ==
    IF source_file.kind = "unreadable"          \* copy2 raises: return None
    THEN Processed(None, Nothing, FALSE, "copy2", Nothing)
    ELSE IF source_file.kind = "vanishes"       \* new_path.stat() raises
    THEN Processed("OSError", Nothing, TRUE, "stat", Nothing)
    ELSE IF ~validate                           \* is_valid = is_suspicious = False
    THEN Processed(None,
                   Some(RecoveredFile(source_file, index, FALSE, FALSE, Nothing)),
                   TRUE, None, Nothing)
    ELSE LET v == validate_jpeg(source_file) IN
         IF v.raised # None
         THEN Processed(v.raised, Nothing, TRUE, "validate_jpeg", Some(v))
         ELSE LET is_valid == v.returned[1]
                  metadata == v.returned[2]
                  truthy == metadata # Nothing /\ ~DictEmpty(The(metadata))
                  s == IF truthy THEN is_suspicious_jpeg(metadata)
                       ELSE Return(FALSE)
              IN  IF s.raised # None
                  THEN Processed(s.raised, Nothing, TRUE,
                                 "is_suspicious_jpeg", Some(v))
                  ELSE Processed(None,
                           Some(RecoveredFile(source_file, index, is_valid,
                                    s.returned,
                                    IF truthy THEN metadata ELSE Nothing)),
                           TRUE, None, Some(v))

\* _create_symlinks(recovered): the valid and suspicious directories after
\* it.  symlink_to fails when the output file system has no symbolic links;
\* the exception is caught and logged.
_create_symlinks(recovered, symlinks_supported, valid, suspicious) ==
    IF recovered.is_valid /\ ~recovered.is_suspicious
    THEN IF recovered.new_filename \notin valid /\ symlinks_supported
         THEN <<valid \cup {recovered.new_filename}, suspicious>>
         ELSE <<valid, suspicious>>
    ELSE IF recovered.is_suspicious \/ ~recovered.is_valid
    THEN IF recovered.new_filename \notin suspicious /\ symlinks_supported
         THEN <<valid, suspicious \cup {recovered.new_filename}>>
         ELSE <<valid, suspicious>>
    ELSE <<valid, suspicious>>

IsValid(f) == f.is_valid
IsSuspicious(f) == f.is_suspicious
IsInvalid(f) == ~f.is_valid

\* _generate_manifest: the dict dumped to manifest.json.
_generate_manifest(files) ==
    [total_files      |-> Len(files),
     valid_files      |-> Cardinality({i \in DOMAIN files : IsValid(files[i])}),
     suspicious_files |-> Cardinality({i \in DOMAIN files :
                                          IsSuspicious(files[i])}),
     files            |-> files]

\* _generate_csv: the data rows written after the header, one per file.
_generate_csv(files) ==
    [i \in DOMAIN files |->
        [filename      |-> files[i].new_filename,
         size_bytes    |-> files[i].size_bytes,
         is_valid      |-> files[i].is_valid,
         is_suspicious |-> files[i].is_suspicious]]

\* (a summary whose suspicious line counts the invalid files)
_generate_summary_invalid_as_suspicious(files) ==
    [total      |-> Len(files),
     valid      |-> Len(SelectSeq(files, IsValid)),
     suspicious |-> Len(SelectSeq(files, IsInvalid)),
     invalid    |-> Len(SelectSeq(files, IsInvalid))]

\* _generate_summary: the Statistics lines of recovery_log.txt.
_generate_summary(files) ==
    [total      |-> Len(files),
     valid      |-> Len(SelectSeq(files, IsValid)),
     suspicious |-> Len(SelectSeq(files, IsSuspicious)),
     invalid    |-> Len(SelectSeq(files, IsInvalid))]

(* ------------------------ core/photorec_wrapper.py --------------------- *)

\* Largest number of entries of the tool's output directory, and of lines of
\* captured output, that _parse_results is tried on.
MaxEntries == 2
MaxLines == 2

\* A file name inside a recup directory: its stem and its suffix.
ChildNames == {[stem |-> "f1", suffix |-> ".jpg"],
               [stem |-> "f2", suffix |-> ".JPG"],
               [stem |-> "f3", suffix |-> ".png"]}

\* An entry of the output directory: whether its name matches recup_dir.*,
\* whether it is a directory, and the names inside it.
Entry(r, d, c) == [recup |-> r, is_dir |-> d, children |-> c]

\* The entries tried: recup directories holding every mix of suffixes, a
\* plain file whose name matches recup_dir.*, and a directory of JPEGs whose
\* name does not match (report.xml and the like hold nothing).
Entries ==
    {Entry(TRUE, TRUE, c) : c \in SUBSET ChildNames}
      \cup {Entry(TRUE, FALSE, {}), Entry(FALSE, FALSE, {}),
            Entry(FALSE, TRUE, {c \in ChildNames : c.suffix # ".png"})}

\* A token of an output line: a run of digits or a word.
Num(ds) == [digits |-> ds, text |-> ""]
Word(w) == [digits |-> <<>>, text |-> w]

\* The lines of tool output tried: progress text, summary lines in several
\* spellings, a line with leading zeros and a line with two summaries.
OutputLines ==
    {<<Word("Pass"), Num(<<1>>)>>,
     <<Num(<<7>>), Word("files"), Word("recovered")>>,
     <<Num(<<1>>), Word("file"), Word("recovered")>>,
     <<Word("PhotoRec:"), Num(<<1, 2>>), Word("Files"), Word("RECOVERED")>>,
     <<Num(<<0, 0, 3>>), Word("files"), Word("found")>>,
     <<Num(<<0, 2>>), Word("files"), Word("recovered"),
       Num(<<9>>), Word("files"), Word("recovered")>>}

RECURSIVE ParseInt(_)
\* int(match.group(1)) on a run of decimal digits.
ParseInt(ds) ==
    IF ds = <<>> THEN 0
    ELSE 10 * ParseInt(SubSeq(ds, 1, Len(ds) - 1)) + ds[Len(ds)]

\* str.lower() on the words that occur.
Lower(w) ==
    CASE w = "Files" -> "files"
      [] w = "RECOVERED" -> "recovered"
      [] w = "Pass" -> "pass"
      [] w = "PhotoRec:" -> "photorec:"
      [] OTHER -> w

\* The positions where (\d+)\s+files?\s+recovered matches, re.IGNORECASE.
MatchPositions(line) ==
    {i \in 1 .. Len(line) - 2 :
        /\ line[i].digits # <<>>
        /\ Lower(line[i + 1].text) \in {"file", "files"}
        /\ Lower(line[i + 2].text) = "recovered"}

\* re.search: the leftmost match, Nothing when there is none.
Search(line) ==
    IF MatchPositions(line) = {} THEN Nothing
    ELSE Some(line[CHOOSE i \in MatchPositions(line) :
                      \A j \in MatchPositions(line) : i <= j].digits)

\* recup_dir.glob(pattern) for the patterns *.jpg and *.JPG: the names of
\* the directory with exactly that suffix, as <<entry, name>> pairs.
Glob(listing, e, suffix) ==
    {<<e, c>> : c \in {x \in listing[e].children : x.suffix = suffix}}

RECURSIVE SetToSeq(_)
\* The elements of a finite set, listed in some order.
SetToSeq(S) ==
    IF S = {} THEN <<>>
    ELSE LET x == CHOOSE y \in S : TRUE IN <<x>> \o SetToSeq(S \ {x})

RECURSIVE CollectFiles(_, _)
\* The loop over recup_dirs, from entry e on: for each directory, extend by
\* glob('*.jpg') and then by glob('*.JPG').
CollectFiles(listing, e) ==
    IF e > Len(listing) THEN <<>>
    ELSE (IF listing[e].recup /\ listing[e].is_dir
          THEN SetToSeq(Glob(listing, e, ".jpg")) \o
               SetToSeq(Glob(listing, e, ".JPG"))
          ELSE <<>>) \o CollectFiles(listing, e + 1)

RECURSIVE ScanLines(_, _, _)
\* The loop over output_lines, from line k on, files_recovered so far.
ScanLines(output_lines, k, files_recovered) ==
    IF k > Len(output_lines) THEN files_recovered
    ELSE LET match == Search(output_lines[k]) IN
         ScanLines(output_lines, k + 1,
                   IF match # Nothing
                   THEN Max(files_recovered, ParseInt(The(match)))
                   ELSE files_recovered)

\* (a count that the last summary line overwrites)
_parse_results_last_line_wins(listing, output_lines) ==
    LET recovered_files == CollectFiles(listing, 1)
        counts == {k \in DOMAIN output_lines : Search(output_lines[k]) # Nothing}
    IN  [recup_dirs      |-> {e \in DOMAIN listing : listing[e].recup},
         recovered_files |-> recovered_files,
         files_recovered |->
             IF counts = {} THEN Len(recovered_files)
             ELSE ParseInt(The(Search(output_lines[
                      CHOOSE k \in counts : \A j \in counts : j <= k])))]

\* _parse_results(output_dir, output_lines)
_parse_results(listing, output_lines) ==
    LET recovered_files == CollectFiles(listing, 1)
    IN  [recup_dirs      |-> {e \in DOMAIN listing : listing[e].recup},
         recovered_files |-> recovered_files,
         files_recovered |-> ScanLines(output_lines, 1, Len(recovered_files))]

(* ------------------------------ state ---------------------------------- *)

VARIABLES
    entry,              \* who calls run: "cli" (recover_cmd), "recover", "run"
    warned,             \* the force-mode warning has been printed
    exit_code,          \* recover_cmd: the status passed to sys.exit
    target,             \* the device_path argument: what kind of path it is
    self_device_path,   \* self.device_path: the string, as its parts
    issued,             \* the paths unmount_device, execute, mount_device got
    skip_confirmation,  \* run(skip_confirmation), = recover(force)
    pc,                 \* the statement of run that executes next
    handler,            \* "none": the try body; "ki"/"exc": that except clause
    device_info,        \* self.device_info
    was_mounted,        \* self.was_mounted
    temp_dir,           \* self.temp_dir
    mounted,            \* the device is mounted (the world)
    tempExists,         \* the temporary scan directory exists (the world)
    outputTouched,      \* something was created under self.output_dir
    response,           \* the answer typed at the confirmation prompt
    toolExit,           \* photorec's exit status: "0", "1" (any non-zero)
    calls,              \* the external operations started, in order
    interrupts,         \* where each KeyboardInterrupt was raised
    failed,             \* the external operations that raised an Exception
    removals,           \* successful removals of the temporary directory
    cleanupPasses,      \* completed executions of _cleanup
    firstError,         \* the exception that left the try body
    outcome,            \* "running", "True", "False" or "raised"
    exc,                \* the exception run raised
    sd_in,              \* SpecSafe: the arguments of is_safe_device
    sd_out,             \* SpecSafe: its result
    source_files,       \* organize: the source_files argument
    validate_files,     \* organize: the validate_files argument
    symlinks_supported, \* the output file system can hold symbolic links
    org_pc,             \* organize: "loop", "done" ("idle": not called)
    idx,                \* organize: idx of the enumerate loop, next to run
    recovered_files,    \* organize: the list recovered_files
    images_dir,         \* the file names under <output>/images
    valid_dir,          \* the link names under <output>/validation/valid
    suspicious_dir,     \* the link names under validation/suspicious
    manifest,           \* metadata/manifest.json, Nothing until written
    csv_rows,           \* the data rows of file_details.csv, Nothing until written
    summary,            \* the statistics of recovery_log.txt
    validations,        \* the results of the calls of validate_jpeg
    file_errors,        \* the source files whose processing failed, and where
    org_outcome,        \* "running", "returned" or "raised"
    source_dir,         \* what is at each source path: Some(file) or Nothing
    sj_in,              \* SpecSuspicious: the argument of is_suspicious_jpeg
    sj_out,             \* SpecSuspicious: its result
    pr_in,              \* SpecParse: the arguments of _parse_results
    pr_out,             \* SpecParse: its result
    bc_in,              \* SpecCommand: the arguments of build_command
    bc_out,             \* SpecCommand: its result
    ps_in,              \* SpecSize: the argument of parse_size
    ps_out              \* SpecSize: its result

vars == <<entry, warned, exit_code, self_device_path, issued,
          target, skip_confirmation, pc, handler, device_info, was_mounted,
          temp_dir, mounted, tempExists, outputTouched, response, toolExit,
          calls, interrupts, failed, removals, cleanupPasses, firstError,
          outcome, exc, sd_in, sd_out, source_files, validate_files,
          symlinks_supported, org_pc, idx, recovered_files, images_dir,
          valid_dir, suspicious_dir, manifest, csv_rows, summary, validations,
          file_errors, org_outcome, source_dir, sj_in, sj_out, pr_in, pr_out,
          bc_in, bc_out, ps_in, ps_out>>

inputs == <<entry, target, self_device_path, skip_confirmation>>
cliVars == <<warned, exit_code>>
pathVars == <<issued>>
safeVars == <<sd_in, sd_out>>
orgInputs == <<source_files, validate_files, symlinks_supported>>
orgVars == <<source_files, validate_files, symlinks_supported, org_pc, idx,
             recovered_files, images_dir, valid_dir, suspicious_dir, manifest,
             csv_rows, summary, validations, file_errors, org_outcome,
             source_dir>>
suspVars == <<sj_in, sj_out>>
parseVars == <<pr_in, pr_out>>
cmdVars == <<bc_in, bc_out>>
sizeVars == <<ps_in, ps_out>>
sessionVars == <<entry, warned, exit_code, self_device_path, issued,
                 target, skip_confirmation, pc, handler, device_info,
                 was_mounted, temp_dir, mounted, tempExists, outputTouched,
                 response, toolExit, calls, interrupts, failed, removals,
                 cleanupPasses, firstError, outcome, exc>>

\* The variables of the functions exercised on their own, which a session
\* leaves alone.
otherVars == <<safeVars, orgVars, suspVars, parseVars, cmdVars, sizeVars>>

\* No RecoveryOrganizer exists.
NoOrganizer ==
    /\ source_files = <<>>
    /\ validate_files = FALSE
    /\ symlinks_supported = FALSE
    /\ org_pc = "idle"
    /\ idx = 0
    /\ recovered_files = <<>>
    /\ images_dir = {}
    /\ valid_dir = {}
    /\ suspicious_dir = {}
    /\ manifest = Nothing
    /\ csv_rows = Nothing
    /\ summary = Nothing
    /\ validations = <<>>
    /\ file_errors = {}
    /\ org_outcome = "running"
    /\ source_dir = <<>>

\* No function is exercised on its own.
NoCommand == bc_in = Nothing /\ bc_out = Nothing

NoSize == ps_in = Nothing /\ ps_out = Nothing

NoCalls ==
    /\ sd_in = Nothing /\ sd_out = Nothing
    /\ sj_in = Nothing /\ sj_out = Nothing
    /\ pr_in = Nothing /\ pr_out = Nothing
    /\ NoCommand
    /\ NoSize

KeyboardInterrupt == "KeyboardInterrupt"

Count(log, op) == Cardinality({i \in DOMAIN log : log[i] = op})

\* The device_path argument, reduced to what validate_device_path and
\* _validate_device look at: whether the string starts with '/dev/', whether
\* its suffix is .img, .dmg or .iso, and whether the path exists.
Paths == [under_dev : BOOLEAN, image_suffix : BOOLEAN, exists : BOOLEAN]

\* An existing node under /dev/ that is not a disk image: a device.
DevicePath == [under_dev |-> TRUE, image_suffix |-> FALSE, exists |-> TRUE]

\* validate_device_path: "ok" when the Path is returned.
validate_device_path(path) ==
    IF ~path.under_dev THEN "ValidationError"
    ELSE IF path.image_suffix
         THEN (IF ~path.exists THEN "ValidationError" ELSE "ok")
    ELSE IF ~path.exists THEN "ValidationError"
    ELSE "ok"

Targets ==
    {[path |-> p, info |-> Nothing] : p \in Paths \ {DevicePath}}
      \cup {[path |-> DevicePath, info |-> Some(i)] : i \in DiskutilInfos}

\* The strings a target can be given as.  A device is named by its ordinal,
\* as the ordinary node /dev/diskN or the raw node /dev/rdiskN (the ordinal
\* -1 is a node without one); other targets are named by what
\* validate_device_path looks at.
PathStrings(t) ==
    IF t.info # Nothing
    THEN IF The(t.info).number < 0
         THEN {<<"/dev/", "sdcard">>}
         ELSE {<<"/dev/", "disk", ToString(The(t.info).number)>>,
               <<"/dev/", "r", "disk", ToString(The(t.info).number)>>}
    ELSE {(IF t.path.under_dev THEN <<"/dev/">> ELSE <<"./">>)
              \o <<"card">>
              \o (IF t.path.image_suffix THEN <<".img">> ELSE <<>>)}

\* recover_cmd calls recover(force), recover calls run(skip_confirmation =
\* force); recover and run can also be called directly.
EntryPoints == {"cli", "recover", "run"}

Init ==
    /\ entry \in EntryPoints
    /\ warned = FALSE
    /\ exit_code = Nothing
    /\ target \in Targets
    /\ self_device_path \in PathStrings(target)
    /\ issued = <<>>
    /\ skip_confirmation \in BOOLEAN
    /\ pc = IF entry = "cli" THEN "cli_check" ELSE "construct"
    /\ handler = "none"
    /\ device_info = Nothing
    /\ was_mounted = FALSE
    /\ temp_dir = None
    /\ mounted = (target.info # Nothing /\ The(target.info).mount_point # None)
    /\ tempExists = FALSE
    /\ outputTouched = FALSE
    /\ response = None
    /\ toolExit = None
    /\ calls = <<>>
    /\ interrupts = <<>>
    /\ failed = {}
    /\ removals = 0
    /\ cleanupPasses = 0
    /\ firstError = None
    /\ outcome = "running"
    /\ exc = None
    /\ NoOrganizer
    /\ NoCalls

(* ------------------------------ constructor ---------------------------- *)

\* (a constructor that creates the output directory before it looks the
\* tool up)
RecoverySession_init_mkdir_first ==
    /\ pc = "construct"
    /\ outputTouched' = TRUE
    /\ UNCHANGED <<inputs, cliVars, pathVars, handler, device_info, was_mounted,
                   temp_dir, mounted, tempExists, response, toolExit, calls,
                   interrupts, removals, cleanupPasses, firstError, outcome,
                   otherVars>>
    /\ \/ /\ pc' = "validate"
          /\ UNCHANGED <<failed, exc>>
       \/ /\ failed' = failed \cup {"_find_photorec"}
          /\ exc' = "PhotoRecNotFoundError"
          /\ pc' = "unconstructed"

\* RecoverySession.__init__: the fields are set (device_info None,
\* was_mounted False, temp_dir None, as in Init) and PhotoRecWrapper() looks
\* the tool up with shutil.which; without it _find_photorec raises
\* PhotoRecNotFoundError out of the constructor, and run is never called.
RecoverySession_init ==
    /\ pc = "construct"
    /\ UNCHANGED <<inputs, cliVars, pathVars, handler, device_info, was_mounted,
                   temp_dir, mounted, tempExists, outputTouched, response,
                   toolExit, calls, interrupts, removals, cleanupPasses,
                   firstError, outcome, otherVars>>
    /\ \/ /\ pc' = "validate"
          /\ UNCHANGED <<failed, exc>>
       \/ /\ failed' = failed \cup {"_find_photorec"}
          /\ exc' = "PhotoRecNotFoundError"
          /\ pc' = "unconstructed"

(* ------------------- raising and leaving the try body ------------------ *)

\* Control passes to the next statement of the try body or of _cleanup.
Goto(next) ==
    /\ pc' = next
    /\ UNCHANGED <<handler, firstError, outcome, exc, interrupts>>

\* An Exception leaves the try body: `except Exception` runs _cleanup.
\* (_cleanup catches every Exception of its own operations, so this happens
\* only while handler = "none".)
RaiseException(e) ==
    /\ firstError' = e
    /\ handler' = "exc"
    /\ pc' = "cleanup_mount"
    /\ UNCHANGED <<outcome, exc, interrupts>>

\* A KeyboardInterrupt is raised at the current statement.  In the try body
\* `except KeyboardInterrupt` catches it and runs _cleanup; inside an except
\* clause nothing catches it and it leaves run at once.
RaiseKeyboardInterrupt(during) ==
    /\ interrupts' = Append(interrupts,
                        [at |-> pc, handler |-> handler, during |-> during])
    /\ IF handler = "none"
       THEN /\ firstError' = KeyboardInterrupt
            /\ handler' = "ki"
            /\ pc' = "cleanup_mount"
            /\ UNCHANGED <<outcome, exc>>
       ELSE /\ outcome' = "raised"
            /\ exc' = KeyboardInterrupt
            /\ pc' = "done"
            /\ UNCHANGED <<handler, firstError>>

(* --------------------------- RecoverySession --------------------------- *)

\* (a Validate step that reports a rejected path and goes on to the safety
\* check)
_validate_device_continues ==
    /\ pc = "validate"
    /\ UNCHANGED <<inputs, cliVars, pathVars, was_mounted, temp_dir, mounted, tempExists,
                   outputTouched, response, toolExit, calls, removals,
                   cleanupPasses, otherVars>>
    /\ \/ /\ validate_device_path(target.path) # "ok"
          /\ failed' = failed \cup {"validate_device_path"}
          /\ Goto("safety")
          /\ UNCHANGED device_info
       \/ /\ validate_device_path(target.path) = "ok"
          /\ target.path.image_suffix
          /\ Goto("safety")
          /\ UNCHANGED <<device_info, failed>>
       \/ /\ validate_device_path(target.path) = "ok"
          /\ ~target.path.image_suffix
          /\ \/ /\ device_info' = Some(get_device_info(self_device_path, The(target.info)))
                /\ Goto("safety")
                /\ UNCHANGED failed
             \/ /\ failed' = failed \cup {"get_device_info"}
                /\ RaiseException("DeviceNotFoundError")
                /\ UNCHANGED device_info

\* Step 1: validate_device_path, then get_device_info unless the target is
\* a disk image.
_validate_device ==
    /\ pc = "validate"
    /\ UNCHANGED <<inputs, cliVars, pathVars, was_mounted, temp_dir, mounted, tempExists,
                   outputTouched, response, toolExit, calls, removals,
                   cleanupPasses, otherVars>>
    /\ \/ /\ validate_device_path(target.path) # "ok"
          /\ failed' = failed \cup {"validate_device_path"}
          /\ RaiseException("ValidationError")
          /\ UNCHANGED device_info
       \/ /\ validate_device_path(target.path) = "ok"
          /\ target.path.image_suffix
          /\ Goto("safety")
          /\ UNCHANGED <<device_info, failed>>
       \/ /\ validate_device_path(target.path) = "ok"
          /\ ~target.path.image_suffix
          /\ \/ /\ device_info' = Some(get_device_info(self_device_path, The(target.info)))
                /\ Goto("safety")
                /\ UNCHANGED failed
             \/ /\ failed' = failed \cup {"get_device_info"}
                /\ RaiseException("DeviceNotFoundError")
                /\ UNCHANGED device_info

\* (a safety check that reports the verdict and never raises)
_check_safety_no_raise ==
    /\ pc = "safety"
    /\ UNCHANGED <<inputs, cliVars, pathVars, device_info, was_mounted, temp_dir, mounted,
                   tempExists, outputTouched, response, toolExit, calls,
                   failed, removals, cleanupPasses, otherVars>>
    /\ Goto("confirm")

\* Step 2: is_safe_device with the default threshold; disk images skip it.
_check_safety ==
    /\ pc = "safety"
    /\ UNCHANGED <<inputs, cliVars, pathVars, device_info, was_mounted, temp_dir, mounted,
                   tempExists, outputTouched, response, toolExit, calls,
                   removals, cleanupPasses, otherVars>>
    /\ IF device_info = Nothing
       THEN Goto("confirm") /\ UNCHANGED failed
       ELSE IF ~is_safe_device(The(device_info), DEFAULT_MAX_SIZE_GB)[1]
            THEN /\ failed' = failed \cup {"is_safe_device"}
                 /\ RaiseException("UnsafeDeviceError")
            ELSE Goto("confirm") /\ UNCHANGED failed

\* What the user types at the prompt, after .strip().lower().
Responses == {"y", "yes", "n", ""}

\* (a prompt whose default answer, the empty line, counts as consent)
_get_confirmation_default_yes(typed) == typed \in {"y", "yes", ""}

\* _get_confirmation returns True for y and yes only.
_get_confirmation(typed) == typed \in {"y", "yes"}

\* (a Confirm step that asks but goes on whatever the answer is)
request_confirmation_ignores_answer ==
    /\ pc = "confirm"
    /\ UNCHANGED <<inputs, cliVars, pathVars, device_info, was_mounted, temp_dir, mounted,
                   tempExists, outputTouched, toolExit, calls, removals,
                   cleanupPasses, otherVars>>
    /\ IF skip_confirmation
       THEN Goto("prepare") /\ UNCHANGED <<response, failed>>
       ELSE \/ \E typed \in Responses :
                 /\ response' = typed
                 /\ UNCHANGED failed
                 /\ Goto("prepare")
            \/ /\ failed' = failed \cup {"input"}
               /\ RaiseException("EOFError")
               /\ UNCHANGED response

\* Step 3: skipped when skip_confirmation; when _get_confirmation returns
\* False, run returns False from inside the try body (no except clause, no
\* cleanup).  input() raises EOFError when standard input is closed.
request_confirmation ==
    /\ pc = "confirm"
    /\ UNCHANGED <<inputs, cliVars, pathVars, device_info, was_mounted, temp_dir, mounted,
                   tempExists, outputTouched, toolExit, calls, removals,
                   cleanupPasses, otherVars>>
    /\ IF skip_confirmation
       THEN Goto("prepare") /\ UNCHANGED <<response, failed>>
       ELSE \/ \E typed \in Responses :
                 /\ response' = typed
                 /\ UNCHANGED failed
                 /\ IF _get_confirmation(typed)
                    THEN Goto("prepare")
                    ELSE /\ outcome' = "False"
                         /\ pc' = "done"
                         /\ UNCHANGED <<handler, firstError, exc, interrupts>>
            \/ /\ failed' = failed \cup {"input"}
               /\ RaiseException("EOFError")
               /\ UNCHANGED response

\* One call of unmount_device, PhotoRecWrapper.execute or mount_device, with
\* the device path it was given.
Issue(op, path) == [op |-> op, path |-> path]

\* (a scan of the path as the caller gave it)
device_to_scan_as_given == self_device_path

\* _run_photorec: the raw device path when device_info has one, else
\* self.device_path.
device_to_scan ==
    IF device_info # Nothing /\ The(device_info).raw_device_path # <<>>
    THEN The(device_info).raw_device_path
    ELSE self_device_path

\* (was_mounted recorded only after unmount_device has returned)
_prepare_device_flag_after_unmount ==
    /\ pc = "prepare"
    /\ UNCHANGED <<inputs, cliVars, device_info, temp_dir, tempExists, outputTouched,
                   response, toolExit, removals, cleanupPasses, otherVars>>
    /\ IF device_info = Nothing
       THEN Goto("scan") /\ UNCHANGED <<was_mounted, mounted, calls, issued, failed>>
       ELSE IF The(device_info).mount_point # None
       THEN /\ calls' = Append(calls, "unmount")
            /\ issued' = Append(issued, Issue("unmount", self_device_path))
            /\ \/ /\ mounted' = FALSE
                  /\ was_mounted' = TRUE
                  /\ Goto("scan")
                  /\ UNCHANGED failed
               \/ /\ failed' = failed \cup {"unmount"}
                  /\ RaiseException("MountError")
                  /\ UNCHANGED <<mounted, was_mounted>>
               \/ /\ mounted' \in BOOLEAN
                  /\ RaiseKeyboardInterrupt(TRUE)
                  /\ UNCHANGED <<failed, was_mounted>>
       ELSE /\ was_mounted' = FALSE
            /\ Goto("scan")
            /\ UNCHANGED <<mounted, calls, issued, failed>>

\* (an unmount failure that is logged and does not stop the run)
_prepare_device_ignores_failure ==
    /\ pc = "prepare"
    /\ UNCHANGED <<inputs, cliVars, device_info, temp_dir, tempExists, outputTouched,
                   response, toolExit, removals, cleanupPasses, otherVars>>
    /\ IF device_info = Nothing
       THEN Goto("scan") /\ UNCHANGED <<was_mounted, mounted, calls, issued, failed>>
       ELSE IF The(device_info).mount_point # None
       THEN /\ was_mounted' = TRUE
            /\ calls' = Append(calls, "unmount")
            /\ issued' = Append(issued, Issue("unmount", self_device_path))
            /\ \/ /\ mounted' = FALSE
                  /\ Goto("scan")
                  /\ UNCHANGED failed
               \/ /\ failed' = failed \cup {"unmount"}
                  /\ Goto("scan")
                  /\ UNCHANGED mounted
               \/ /\ mounted' \in BOOLEAN
                  /\ RaiseKeyboardInterrupt(TRUE)
                  /\ UNCHANGED failed
       ELSE /\ was_mounted' = FALSE
            /\ Goto("scan")
            /\ UNCHANGED <<mounted, calls, issued, failed>>

\* Step 4: was_mounted is recorded before unmount_device is called.
_prepare_device ==
    /\ pc = "prepare"
    /\ UNCHANGED <<inputs, cliVars, device_info, temp_dir, tempExists, outputTouched,
                   response, toolExit, removals, cleanupPasses, otherVars>>
    /\ IF device_info = Nothing
       THEN Goto("scan") /\ UNCHANGED <<was_mounted, mounted, calls, issued, failed>>
       ELSE IF The(device_info).mount_point # None
       THEN /\ was_mounted' = TRUE
            /\ calls' = Append(calls, "unmount")
            /\ issued' = Append(issued, Issue("unmount", self_device_path))
            /\ \/ /\ mounted' = FALSE
                  /\ Goto("scan")
                  /\ UNCHANGED failed
               \/ /\ failed' = failed \cup {"unmount"}
                  /\ RaiseException("MountError")
                  /\ UNCHANGED mounted
               \/ /\ mounted' \in BOOLEAN
                  /\ RaiseKeyboardInterrupt(TRUE)
                  /\ UNCHANGED failed
       ELSE /\ was_mounted' = FALSE
            /\ Goto("scan")
            /\ UNCHANGED <<mounted, calls, issued, failed>>

\* (an execute that does not look at the exit status)
_run_photorec_unchecked_exit ==
    /\ pc = "scan"
    /\ UNCHANGED <<inputs, cliVars, device_info, was_mounted, mounted, outputTouched,
                   response, removals, cleanupPasses, otherVars>>
    /\ \/ /\ calls' = Append(calls, "mkdtemp")
          /\ UNCHANGED issued
          /\ failed' = failed \cup {"mkdtemp"}
          /\ RaiseException("OSError")
          /\ UNCHANGED <<temp_dir, tempExists, toolExit>>
       \/ /\ temp_dir' = "photorec_tmp"
          /\ tempExists' = TRUE
          /\ calls' = calls \o <<"mkdtemp", "execute">>
          /\ issued' = Append(issued, Issue("execute", device_to_scan))
          /\ \/ /\ toolExit' \in {"0", "1"}
                /\ Goto("organize")
                /\ UNCHANGED failed
             \/ /\ failed' = failed \cup {"execute"}
                /\ RaiseException("PhotoRecExecutionError")
                /\ UNCHANGED toolExit
             \/ /\ RaiseKeyboardInterrupt(TRUE)
                /\ UNCHANGED <<toolExit, failed>>

\* Step 5: mkdtemp, then PhotoRecWrapper.execute on the temporary directory.
\* execute turns a failure to start the tool and a non-zero exit status into
\* PhotoRecExecutionError.
_run_photorec ==
    /\ pc = "scan"
    /\ UNCHANGED <<inputs, cliVars, device_info, was_mounted, mounted, outputTouched,
                   response, removals, cleanupPasses, otherVars>>
    /\ \/ /\ calls' = Append(calls, "mkdtemp")    \* mkdtemp fails
          /\ UNCHANGED issued
          /\ failed' = failed \cup {"mkdtemp"}
          /\ RaiseException("OSError")
          /\ UNCHANGED <<temp_dir, tempExists, toolExit>>
       \/ /\ temp_dir' = "photorec_tmp"
          /\ tempExists' = TRUE
          /\ calls' = calls \o <<"mkdtemp", "execute">>
          /\ issued' = Append(issued, Issue("execute", device_to_scan))
          /\ \/ /\ toolExit' = "0"                  \* exit status 0
                /\ Goto("organize")
                /\ UNCHANGED failed
             \/ /\ toolExit' = "1"                  \* return_code != 0
                /\ failed' = failed \cup {"execute"}
                /\ RaiseException("PhotoRecExecutionError")
             \/ /\ failed' = failed \cup {"execute"} \* Popen cannot start it
                /\ RaiseException("PhotoRecExecutionError")
                /\ UNCHANGED toolExit
             \/ /\ RaiseKeyboardInterrupt(TRUE)
                /\ UNCHANGED <<toolExit, failed>>

\* Step 6: RecoveryOrganizer(output_dir) creates the output directories, then
\* organize copies and classifies the recovered files.
_organize_output ==
    /\ pc = "organize"
    /\ UNCHANGED <<inputs, cliVars, pathVars, device_info, was_mounted, temp_dir, mounted,
                   tempExists, response, toolExit, removals, cleanupPasses,
                   otherVars>>
    /\ calls' = Append(calls, "organize")
    /\ \/ /\ outputTouched' = TRUE
          /\ Goto("cleanup_mount")
          /\ UNCHANGED failed
       \/ /\ outputTouched' \in BOOLEAN      \* the first mkdir may fail
          /\ failed' = failed \cup {"organize"}
          /\ RaiseException("OSError")
       \/ /\ outputTouched' \in BOOLEAN
          /\ RaiseKeyboardInterrupt(TRUE)
          /\ UNCHANGED failed

\* (a remount whose MountError is not caught)
_cleanup_remount_propagates ==
    /\ pc = "cleanup_mount"
    /\ UNCHANGED <<inputs, cliVars, device_info, was_mounted, temp_dir, tempExists,
                   outputTouched, response, toolExit, removals, cleanupPasses,
                   otherVars>>
    /\ IF device_info # Nothing /\ was_mounted
       THEN /\ calls' = Append(calls, "mount")
            /\ issued' = Append(issued, Issue("mount", self_device_path))
            /\ \/ /\ mounted' = TRUE
                  /\ Goto("cleanup_rmtree")
                  /\ UNCHANGED failed
               \/ /\ failed' = failed \cup {"mount"}
                  /\ IF handler = "none"
                     THEN RaiseException("MountError")
                     ELSE /\ outcome' = "raised"
                          /\ exc' = "MountError"
                          /\ pc' = "done"
                          /\ UNCHANGED <<handler, firstError, interrupts>>
                  /\ UNCHANGED mounted
               \/ /\ mounted' \in {mounted, TRUE}
                  /\ RaiseKeyboardInterrupt(TRUE)
                  /\ UNCHANGED failed
       ELSE /\ Goto("cleanup_rmtree")
            /\ UNCHANGED <<mounted, calls, issued, failed>>

\* (a cleanup that mounts every device it has information about)
_cleanup_remount_unconditional ==
    /\ pc = "cleanup_mount"
    /\ UNCHANGED <<inputs, cliVars, device_info, was_mounted, temp_dir, tempExists,
                   outputTouched, response, toolExit, removals, cleanupPasses,
                   otherVars>>
    /\ IF device_info # Nothing
       THEN /\ calls' = Append(calls, "mount")
            /\ issued' = Append(issued, Issue("mount", self_device_path))
            /\ \/ /\ mounted' = TRUE
                  /\ Goto("cleanup_rmtree")
                  /\ UNCHANGED failed
               \/ /\ failed' = failed \cup {"mount"}
                  /\ Goto("cleanup_rmtree")
                  /\ UNCHANGED mounted
               \/ /\ mounted' \in {mounted, TRUE}
                  /\ RaiseKeyboardInterrupt(TRUE)
                  /\ UNCHANGED failed
       ELSE /\ Goto("cleanup_rmtree")
            /\ UNCHANGED <<mounted, calls, issued, failed>>

\* _cleanup, first half: remount when the device was mounted before.  Every
\* Exception of mount_device is caught and reported.
_cleanup_remount ==
    /\ pc = "cleanup_mount"
    /\ UNCHANGED <<inputs, cliVars, device_info, was_mounted, temp_dir, tempExists,
                   outputTouched, response, toolExit, removals, cleanupPasses,
                   otherVars>>
    /\ IF device_info # Nothing /\ was_mounted
       THEN /\ calls' = Append(calls, "mount")
            /\ issued' = Append(issued, Issue("mount", self_device_path))
            /\ \/ /\ mounted' = TRUE
                  /\ Goto("cleanup_rmtree")
                  /\ UNCHANGED failed
               \/ /\ failed' = failed \cup {"mount"}
                  /\ Goto("cleanup_rmtree")
                  /\ UNCHANGED mounted
               \/ /\ mounted' \in {mounted, TRUE}
                  /\ RaiseKeyboardInterrupt(TRUE)
                  /\ UNCHANGED failed
       ELSE /\ Goto("cleanup_rmtree")
            /\ UNCHANGED <<mounted, calls, issued, failed>>

\* Where control goes when _cleanup returns: on to `return True` in the try
\* body, or to the bare `raise` of the except clause.
CleanupReturns ==
    /\ cleanupPasses' = cleanupPasses + 1
    /\ IF handler = "none"
       THEN Goto("return")
       ELSE /\ outcome' = "raised"
            /\ exc' = firstError
            /\ pc' = "done"
            /\ UNCHANGED <<handler, firstError, interrupts>>

\* _cleanup, second half: remove the temporary directory if it still exists.
\* Every Exception of rmtree is caught and logged.
_cleanup_rmtree ==
    /\ pc = "cleanup_rmtree"
    /\ UNCHANGED <<inputs, cliVars, pathVars, device_info, was_mounted, temp_dir, mounted,
                   outputTouched, response, toolExit, otherVars>>
    /\ IF temp_dir # None /\ tempExists
       THEN /\ calls' = Append(calls, "rmtree")
            /\ \/ /\ tempExists' = FALSE
                  /\ removals' = removals + 1
                  /\ CleanupReturns
                  /\ UNCHANGED failed
               \/ /\ failed' = failed \cup {"rmtree"}
                  /\ CleanupReturns
                  /\ UNCHANGED <<tempExists, removals>>
               \/ /\ \/ tempExists' = FALSE /\ removals' = removals + 1
                     \/ UNCHANGED <<tempExists, removals>>
                  /\ RaiseKeyboardInterrupt(TRUE)
                  /\ UNCHANGED <<failed, cleanupPasses>>
       ELSE /\ CleanupReturns
            /\ UNCHANGED <<tempExists, calls, failed, removals>>

\* After Step 7: the success message, then `return True`.
_return_true ==
    /\ pc = "return"
    /\ outcome' = "True"
    /\ pc' = "done"
    /\ UNCHANGED <<inputs, cliVars, pathVars, handler, device_info, was_mounted, temp_dir,
                   mounted, tempExists, outputTouched, response, toolExit,
                   calls, interrupts, failed, removals, cleanupPasses,
                   firstError, exc, otherVars>>

\* The user presses Ctrl-C between two operations: the KeyboardInterrupt is
\* raised at the statement about to execute, which has started nothing.
Interrupt ==
    /\ pc \notin {"cli_check", "exited", "construct", "unconstructed", "done"}
    /\ RaiseKeyboardInterrupt(FALSE)
    /\ UNCHANGED <<inputs, cliVars, pathVars, device_info, was_mounted, temp_dir, mounted,
                   tempExists, outputTouched, response, toolExit, calls,
                   failed, removals, cleanupPasses, otherVars>>

\* (an exit that reports a declined confirmation as success)
recover_cmd_exit_declined_ok ==
    /\ entry = "cli"
    /\ pc \in {"done", "unconstructed"}
    /\ exit_code = Nothing
    /\ exit_code' = Some(IF outcome \in {"True", "False"} THEN 0
                         ELSE IF exc = KeyboardInterrupt THEN 130
                         ELSE 1)
    /\ UNCHANGED <<inputs, pathVars, warned, pc, handler, device_info, was_mounted,
                   temp_dir, mounted, tempExists, outputTouched, response,
                   toolExit, calls, interrupts, failed, removals,
                   cleanupPasses, firstError, outcome, exc, otherVars>>

\* recover_cmd, first part: PhotoRecWrapper() and check_version(), the
\* force-mode warning, then recover(...), which constructs the session and
\* calls run.  Without photorec the command exits with 1; a failing version
\* check is an SDRecoveryError or an unexpected Exception, status 1; Ctrl-C
\* while the version check runs is status 130.
recover_cmd_start ==
    /\ pc = "cli_check"
    /\ UNCHANGED <<inputs, pathVars, handler, device_info, was_mounted, temp_dir,
                   mounted, tempExists, outputTouched, response, toolExit, calls,
                   removals, cleanupPasses, firstError, outcome, exc,
                   otherVars>>
    /\ \/ /\ warned' = skip_confirmation       \* if force: print the warning
          /\ pc' = "construct"
          /\ UNCHANGED <<exit_code, failed, interrupts>>
       \/ /\ failed' = failed \cup {"PhotoRecWrapper"}
          /\ exit_code' = Some(1)
          /\ pc' = "exited"
          /\ UNCHANGED <<warned, interrupts>>
       \/ /\ failed' = failed \cup {"check_version"}
          /\ exit_code' = Some(1)
          /\ pc' = "exited"
          /\ UNCHANGED <<warned, interrupts>>
       \/ /\ interrupts' = Append(interrupts,
                                  [at |-> pc, handler |-> "cli", during |-> TRUE])
          /\ exit_code' = Some(130)
          /\ pc' = "exited"
          /\ UNCHANGED <<warned, failed>>

\* recover_cmd, second part: recover has returned or raised.  sys.exit(0) for
\* True, sys.exit(1) for False; KeyboardInterrupt is status 130, an
\* SDRecoveryError (the constructor's PhotoRecNotFoundError is one) and any
\* other Exception status 1.
recover_cmd_exit ==
    /\ entry = "cli"
    /\ pc \in {"done", "unconstructed"}
    /\ exit_code = Nothing
    /\ exit_code' = Some(IF outcome = "True" THEN 0
                         ELSE IF outcome = "False" THEN 1
                         ELSE IF exc = KeyboardInterrupt THEN 130
                         ELSE 1)
    /\ UNCHANGED <<inputs, pathVars, warned, pc, handler, device_info, was_mounted,
                   temp_dir, mounted, tempExists, outputTouched, response,
                   toolExit, calls, interrupts, failed, removals,
                   cleanupPasses, firstError, outcome, exc, otherVars>>

Next ==
    \/ recover_cmd_start
    \/ recover_cmd_exit
    \/ RecoverySession_init
    \/ _validate_device
    \/ _check_safety
    \/ request_confirmation
    \/ _prepare_device
    \/ _run_photorec
    \/ _organize_output
    \/ _cleanup_remount
    \/ _cleanup_rmtree
    \/ _return_true
    \/ Interrupt

Spec == Init /\ [][Next]_vars

TypeOK ==
    /\ pc \in {"cli_check", "exited", "construct", "unconstructed",
               "validate", "safety", "confirm", "prepare", "scan", "organize",
               "cleanup_mount", "cleanup_rmtree", "return", "done"}
    /\ entry \in EntryPoints
    /\ exit_code # Nothing => (entry = "cli" /\ pc \in {"exited", "done", "unconstructed"})
    /\ handler \in {"none", "ki", "exc"}
    /\ outcome \in {"running", "True", "False", "raised"}
    /\ was_mounted \in BOOLEAN /\ mounted \in BOOLEAN /\ tempExists \in BOOLEAN
    /\ Len(interrupts) <= 2
    /\ (pc = "done") = (outcome # "running")
    /\ self_device_path \in PathStrings(target)
    /\ Len(issued) <= 4
    /\ \A i \in DOMAIN issued : issued[i].op \in {"unmount", "execute", "mount"}

(* ------------------- is_safe_device on its own -------------------------- *)
(* SpecSafe applies is_safe_device to every descriptor and threshold of    *)
(* the bounded sets; no session runs.                                      *)

Thresholds == (0 .. MaxSmallThreshold) \cup {DEFAULT_MAX_SIZE_GB}

NoSession ==
    /\ entry = "run"
    /\ warned = FALSE
    /\ exit_code = Nothing
    /\ target = [path |-> [under_dev |-> FALSE, image_suffix |-> FALSE,
                           exists |-> FALSE],
                 info |-> Nothing]
    /\ self_device_path = <<>>
    /\ issued = <<>>
    /\ skip_confirmation = FALSE
    /\ pc = "idle"
    /\ handler = "none"
    /\ device_info = Nothing
    /\ was_mounted = FALSE
    /\ temp_dir = None
    /\ mounted = FALSE
    /\ tempExists = FALSE
    /\ outputTouched = FALSE
    /\ response = None
    /\ toolExit = None
    /\ calls = <<>>
    /\ interrupts = <<>>
    /\ failed = {}
    /\ removals = 0
    /\ cleanupPasses = 0
    /\ firstError = None
    /\ outcome = "running"
    /\ exc = None

InitSafe ==
    /\ NoSession
    /\ NoOrganizer
    /\ NoCommand
    /\ NoSize
    /\ sd_in \in [device_info : DeviceInfos, max_size_gb : Thresholds]
    /\ sd_out = Nothing
    /\ sj_in = Nothing /\ sj_out = Nothing
    /\ pr_in = Nothing /\ pr_out = Nothing

call_is_safe_device ==
    /\ sd_out = Nothing
    /\ sd_out' = is_safe_device(sd_in.device_info, sd_in.max_size_gb)
    /\ UNCHANGED <<sessionVars, cmdVars, sizeVars,
                   orgVars, suspVars, parseVars, sd_in>>

NextSafe == call_is_safe_device

SpecSafe == InitSafe /\ [][NextSafe]_vars

(* ----------------- RecoveryOrganizer.organize on its own ---------------- *)
(* SpecOrganize is one call of organize on a fresh output directory (the    *)
(* constructor has created the empty directories), for every list of up to *)
(* MaxFiles source files.                                                  *)

\* Largest number of source files handed to organize.
MaxFiles == 3

\* The file at position k of source_files; its position stands for its path.
SourceFile(f, k) ==
    [path |-> k, kind |-> f.kind, width |-> f.width, height |-> f.height,
     size_bytes |-> f.size_bytes]

\* The files at the paths of a list of source files, before organize.
SourceDirOf(files) ==
    [k \in DOMAIN files |->
        Some(File(files[k].kind, files[k].width, files[k].height,
                  files[k].size_bytes))]

SourceLists ==
    UNION {{[k \in 1 .. n |-> SourceFile(fs[k], k)] : fs \in [1 .. n -> Files]} :
              n \in 0 .. MaxFiles}

InitOrganize ==
    /\ NoSession
    /\ NoCalls
    /\ source_files \in SourceLists
    /\ validate_files \in BOOLEAN
    /\ symlinks_supported \in BOOLEAN
    /\ org_pc = "loop"
    /\ idx = 1
    /\ recovered_files = <<>>
    /\ images_dir = {}
    /\ valid_dir = {}
    /\ suspicious_dir = {}
    /\ manifest = Nothing
    /\ csv_rows = Nothing
    /\ summary = Nothing
    /\ validations = <<>>
    /\ file_errors = {}
    /\ org_outcome = "running"
    /\ source_dir = SourceDirOf(source_files)

\* What one turn of the loop leaves behind, whatever organize does with an
\* exception of _process_file.
LoopEffects(r) ==
    /\ images_dir' = IF r.copied
                     THEN images_dir \cup {NewFilename(idx)}
                     ELSE images_dir
    /\ validations' = IF r.validation # Nothing
                      THEN Append(validations, The(r.validation))
                      ELSE validations
    /\ file_errors' = IF r.error # None
                      THEN file_errors \cup {<<idx, r.error>>}
                      ELSE file_errors
    /\ IF r.raised = None /\ r.returned # Nothing
       THEN LET links == _create_symlinks(The(r.returned), symlinks_supported,
                                          valid_dir, suspicious_dir)
            IN  /\ recovered_files' = Append(recovered_files, The(r.returned))
                /\ valid_dir' = links[1]
                /\ suspicious_dir' = links[2]
       ELSE UNCHANGED <<recovered_files, valid_dir, suspicious_dir>>

\* (a loop without the try/except around _process_file)
organize_file_uncaught ==
    /\ org_pc = "loop"
    /\ idx <= Len(source_files)
    /\ LET r == _process_file(source_files[idx], idx, validate_files) IN
       /\ LoopEffects(r)
       /\ IF r.raised # None
          THEN org_pc' = "done" /\ org_outcome' = "raised" /\ UNCHANGED idx
          ELSE idx' = idx + 1 /\ UNCHANGED <<org_pc, org_outcome>>
    /\ UNCHANGED <<sessionVars, cmdVars, sizeVars,
                   safeVars, suspVars, parseVars, orgInputs, source_dir,
                   manifest, csv_rows, summary>>

\* (a loop that numbers a file by the count of artifacts so far)
organize_file_counts_artifacts ==
    /\ org_pc = "loop"
    /\ idx <= Len(source_files)
    /\ LET r == _process_file(source_files[idx], Len(recovered_files) + 1,
                              validate_files)
       IN  LoopEffects(r)
    /\ idx' = idx + 1
    /\ UNCHANGED <<sessionVars, cmdVars, sizeVars,
                   safeVars, suspVars, parseVars, orgInputs, source_dir,
                   org_pc, org_outcome, manifest, csv_rows, summary>>

\* (a loop whose _process_file moves the file, shutil.move for shutil.copy2)
organize_file_moves ==
    /\ org_pc = "loop"
    /\ idx <= Len(source_files)
    /\ LET r == _process_file(source_files[idx], idx, validate_files) IN
       /\ LoopEffects(r)
       /\ source_dir' = IF r.copied
                        THEN [source_dir EXCEPT ![idx] = Nothing]
                        ELSE source_dir
    /\ idx' = idx + 1
    /\ UNCHANGED <<sessionVars, cmdVars, sizeVars,
                   safeVars, suspVars, parseVars, orgInputs,
                   org_pc, org_outcome, manifest, csv_rows, summary>>

\* One turn of the loop of organize: _process_file on source_files[idx]; an
\* Exception it raises is caught and logged, a None it returns is skipped.
\* shutil.copy2 reads the source file and leaves it where it is.
organize_file ==
    /\ org_pc = "loop"
    /\ idx <= Len(source_files)
    /\ LET r == _process_file(source_files[idx], idx, validate_files) IN
       LoopEffects(r)
    /\ idx' = idx + 1
    /\ UNCHANGED <<sessionVars, cmdVars, sizeVars,
                   safeVars, suspVars, parseVars, orgInputs, source_dir,
                   org_pc, org_outcome, manifest, csv_rows, summary>>

\* After the loop: _generate_manifest, _generate_csv, _generate_summary, then
\* return recovered_files.  Each report is written with open(..., 'w'); an
\* OSError there leaves organize.
organize_reports ==
    /\ org_pc = "loop"
    /\ idx > Len(source_files)
    /\ org_pc' = "done"
    /\ \/ /\ manifest' = Some(_generate_manifest(recovered_files))
          /\ csv_rows' = Some(_generate_csv(recovered_files))
          /\ summary' = Some(_generate_summary(recovered_files))
          /\ org_outcome' = "returned"
       \/ /\ org_outcome' = "raised"           \* manifest.json cannot be written
          /\ UNCHANGED <<manifest, csv_rows, summary>>
       \/ /\ manifest' = Some(_generate_manifest(recovered_files))
          /\ org_outcome' = "raised"           \* file_details.csv cannot
          /\ UNCHANGED <<csv_rows, summary>>
       \/ /\ manifest' = Some(_generate_manifest(recovered_files))
          /\ csv_rows' = Some(_generate_csv(recovered_files))
          /\ org_outcome' = "raised"           \* recovery_log.txt cannot
          /\ UNCHANGED summary
    /\ UNCHANGED <<sessionVars, cmdVars, sizeVars,
                   safeVars, suspVars, parseVars, orgInputs, source_dir, idx,
                   recovered_files, images_dir, valid_dir, suspicious_dir,
                   validations, file_errors>>

NextOrganize ==
    \/ organize_file
    \/ organize_reports

SpecOrganize == InitOrganize /\ [][NextOrganize]_vars

(* ------------- successive organize calls, one output directory --------- *)
(* SpecReorganize is a sequence of sessions writing into the same output    *)
(* directory: each constructs a RecoveryOrganizer on it (the directories    *)
(* exist already, mkdir(exist_ok=True) leaves them as they are) and calls   *)
(* organize on the files of its own scan.  The files and links of earlier   *)
(* calls stay; copy2 and the reports overwrite files of the same name.      *)

\* Largest number of source files of one call in SpecReorganize.
MaxReFiles == 2

\* A sound picture and one of less than 1 KB.
RePictures == {File("jpeg", 640, 480, 2048), File("jpeg", 640, 480, 500)}

ReSourceLists ==
    UNION {{[k \in 1 .. n |-> SourceFile(fs[k], k)] : fs \in [1 .. n -> RePictures]} :
              n \in 0 .. MaxReFiles}

InitReorganize ==
    /\ NoSession
    /\ NoCalls
    /\ source_files \in ReSourceLists
    /\ validate_files \in BOOLEAN
    /\ symlinks_supported \in BOOLEAN
    /\ org_pc = "loop"
    /\ idx = 1
    /\ recovered_files = <<>>
    /\ images_dir = {}
    /\ valid_dir = {}
    /\ suspicious_dir = {}
    /\ manifest = Nothing
    /\ csv_rows = Nothing
    /\ summary = Nothing
    /\ validations = <<>>
    /\ file_errors = {}
    /\ org_outcome = "running"
    /\ source_dir = SourceDirOf(source_files)

\* The next session: RecoveryOrganizer(output_base) on the same directory,
\* then organize(source_files, validate_files) up to its loop.  Nothing under
\* the output directory is removed or changed.
organize_again ==
    /\ org_pc = "done"
    /\ source_files' \in ReSourceLists
    /\ validate_files' \in BOOLEAN
    /\ org_pc' = "loop"
    /\ idx' = 1
    /\ recovered_files' = <<>>
    /\ validations' = <<>>
    /\ file_errors' = {}
    /\ org_outcome' = "running"
    /\ source_dir' = SourceDirOf(source_files')
    /\ UNCHANGED <<sessionVars, cmdVars, sizeVars,
                   safeVars, suspVars, parseVars, symlinks_supported,
                   images_dir, valid_dir, suspicious_dir, manifest, csv_rows,
                   summary>>

NextReorganize ==
    \/ organize_file
    \/ organize_reports
    \/ organize_again

SpecReorganize == InitReorganize /\ [][NextReorganize]_vars

(* ------------------- is_suspicious_jpeg on its own ---------------------- *)

InitSuspicious ==
    /\ NoSession
    /\ NoOrganizer
    /\ NoCommand
    /\ NoSize
    /\ sd_in = Nothing /\ sd_out = Nothing
    /\ pr_in = Nothing /\ pr_out = Nothing
    /\ sj_in \in {Some(m) : m \in Metadatas}
    /\ sj_out = Nothing

call_is_suspicious_jpeg ==
    /\ sj_in # Nothing
    /\ sj_out = Nothing
    /\ sj_out' = Some(is_suspicious_jpeg(The(sj_in)))
    /\ UNCHANGED <<sessionVars, cmdVars, sizeVars,
                   safeVars, orgVars, parseVars, sj_in>>

NextSuspicious == call_is_suspicious_jpeg

SpecSuspicious == InitSuspicious /\ [][NextSuspicious]_vars

(* ---------------------- _parse_results on its own ----------------------- *)
(* SpecParse applies _parse_results, as execute does after exit status 0,  *)
(* to every listing of the output directory and every captured output of   *)
(* the bounded sets.                                                       *)

SeqsUpTo(S, n) == UNION {[1 .. k -> S] : k \in 0 .. n}

InitParse ==
    /\ NoSession
    /\ NoOrganizer
    /\ NoCommand
    /\ NoSize
    /\ sd_in = Nothing /\ sd_out = Nothing
    /\ sj_in = Nothing /\ sj_out = Nothing
    /\ pr_in \in {Some([listing |-> l, output_lines |-> o]) :
                     l \in SeqsUpTo(Entries, MaxEntries),
                     o \in SeqsUpTo(OutputLines, MaxLines)}
    /\ pr_out = Nothing

call_parse_results ==
    /\ pr_in # Nothing
    /\ pr_out = Nothing
    /\ pr_out' = Some(_parse_results(The(pr_in).listing,
                                     The(pr_in).output_lines))
    /\ UNCHANGED <<sessionVars, cmdVars, sizeVars,
                   safeVars, orgVars, suspVars, pr_in>>

NextParse == call_parse_results

SpecParse == InitParse /\ [][NextParse]_vars

(* ---------------- PhotoRecWrapper.build_command on its own -------------- *)
(* A string that is a comma-separated list is modelled as the sequence of   *)
(* its fields: 'options,paranoid' is <<"options", "paranoid">>, and joining *)
(* strings with ',' concatenates their fields.                              *)

\* Largest number of entries of file_types.
MaxTypes == 2

\* The file type names tried.
FileTypeNames == {"jpg", "png", "gif"}

\* The output directories tried: not there yet, there, or a file of that
\* name is in the way.
OutputDirs == {[name |-> "recovered", state |-> st] :
                  st \in {"absent", "directory", "file"}}

RECURSIVE JoinComma(_)
\* ','.join(options)
JoinComma(options) ==
    IF options = <<>> THEN <<>>
    ELSE Head(options) \o JoinComma(Tail(options))

\* [f'fileopt,{ftype},enable' for ftype in file_types]
EnableOptions(file_types) ==
    [k \in DOMAIN file_types |-> <<"fileopt", file_types[k], "enable">>]

\* (a command with the paranoid option appended after search)
build_command_paranoid_last(photorec_path, device_path, output_dir, paranoid, file_types) ==
    LET types == IF file_types = Nothing THEN <<"jpg">> ELSE The(file_types)
        options == <<<<"fileopt", "everything", "disable">>>>
                       \o EnableOptions(types)
                       \o <<<<"search">>>>
                       \o (IF paranoid THEN <<<<"options", "paranoid">>>>
                           ELSE <<>>)
    IN  IF output_dir.state = "file"
        THEN [raised |-> "FileExistsError", returned |-> <<>>]
        ELSE Return(<<photorec_path, "/d", output_dir.name, "/cmd",
                      device_path, JoinComma(options)>>)

\* build_command(device_path, output_dir, paranoid, file_types) of a wrapper
\* with the given photorec_path.  mkdir(parents=True, exist_ok=True) raises
\* FileExistsError when output_dir is an existing file.
build_command(photorec_path, device_path, output_dir, paranoid, file_types) ==
    LET types == IF file_types = Nothing THEN <<"jpg">> ELSE The(file_types)
        options == <<<<"fileopt", "everything", "disable">>>>
                       \o EnableOptions(types)
                       \o (IF paranoid THEN <<<<"options", "paranoid">>>>
                           ELSE <<>>)
                       \o <<<<"search">>>>
    IN  IF output_dir.state = "file"
        THEN [raised |-> "FileExistsError", returned |-> <<>>]
        ELSE Return(<<photorec_path, "/d", output_dir.name, "/cmd",
                      device_path, JoinComma(options)>>)

InitCommand ==
    /\ NoSession
    /\ NoOrganizer
    /\ sd_in = Nothing /\ sd_out = Nothing
    /\ sj_in = Nothing /\ sj_out = Nothing
    /\ pr_in = Nothing /\ pr_out = Nothing
    /\ NoSize
    /\ bc_in \in {Some([photorec_path |-> pp, device_path |-> dp,
                         output_dir |-> od, paranoid |-> pa,
                         file_types |-> ft]) :
                     pp \in {"/usr/local/bin/photorec", "/opt/homebrew/bin/photorec"},
                     dp \in {"/dev/disk2", "/dev/rdisk2", "test.img"},
                     od \in OutputDirs,
                     pa \in BOOLEAN,
                     ft \in Optional(SeqsUpTo(FileTypeNames, MaxTypes))}
    /\ bc_out = Nothing

call_build_command ==
    /\ bc_in # Nothing
    /\ bc_out = Nothing
    /\ bc_out' = Some(build_command(The(bc_in).photorec_path,
                                    The(bc_in).device_path,
                                    The(bc_in).output_dir,
                                    The(bc_in).paranoid,
                                    The(bc_in).file_types))
    /\ UNCHANGED <<sessionVars, sizeVars, safeVars, orgVars, suspVars,
                   parseVars, bc_in>>

NextCommand == call_build_command

SpecCommand == InitCommand /\ [][NextCommand]_vars

(* --------------------------- parse_size on its own ---------------------- *)
(* A size string is the sequence of its characters.  The numbers tried are  *)
(* binary fractions (halves), for which float arithmetic is exact.          *)

DigitChars == {"0", "1", "2", "3", "4", "5", "6", "7", "8", "9"}

DigitOf(c) ==
    CASE c = "0" -> 0 [] c = "1" -> 1 [] c = "2" -> 2 [] c = "3" -> 3
      [] c = "4" -> 4 [] c = "5" -> 5 [] c = "6" -> 6 [] c = "7" -> 7
      [] c = "8" -> 8 [] c = "9" -> 9

\* str.upper() on the letters that occur.
UpperChar(c) ==
    CASE c = "b" -> "B" [] c = "k" -> "K" [] c = "m" -> "M" [] c = "g" -> "G"
      [] c = "t" -> "T" [] c = "p" -> "P" [] OTHER -> c

NotParen(c) == c \notin {"(", ")"}

RECURSIVE Strip(_)
\* str.strip()
Strip(str) ==
    IF str = <<>> THEN str
    ELSE IF Head(str) = " " THEN Strip(Tail(str))
    ELSE IF str[Len(str)] = " " THEN Strip(SubSeq(str, 1, Len(str) - 1))
    ELSE str

RECURSIVE DigitRunEnd(_, _)
\* [\d.]+ from position i on: the position after the longest run of digits
\* and dots (i itself when there is none).
DigitRunEnd(str, i) ==
    IF i <= Len(str) /\ str[i] \in DigitChars \cup {"."}
    THEN DigitRunEnd(str, i + 1)
    ELSE i

RECURSIVE SpaceRunEnd(_, _)
\* \s* from position i on: the position after the run of blanks.
SpaceRunEnd(str, i) ==
    IF i <= Len(str) /\ str[i] = " " THEN SpaceRunEnd(str, i + 1) ELSE i

\* ([\d.]+)\s*([KMGTP]?B) with re.IGNORECASE, anchored at position i: the
\* two groups, Nothing when it does not match there.  A shorter run of
\* digits or blanks never helps: what follows it is a digit, dot or blank.
SizeMatchAt(str, i) ==
    LET e == DigitRunEnd(str, i)
        u == SpaceRunEnd(str, e)
    IN  IF e = i THEN Nothing
        ELSE IF /\ u + 1 <= Len(str)
                /\ UpperChar(str[u]) \in {"K", "M", "G", "T", "P"}
                /\ UpperChar(str[u + 1]) = "B"
        THEN Some([number |-> SubSeq(str, i, e - 1),
                   unit |-> SubSeq(str, u, u + 1)])
        ELSE IF u <= Len(str) /\ UpperChar(str[u]) = "B"
        THEN Some([number |-> SubSeq(str, i, e - 1),
                   unit |-> SubSeq(str, u, u)])
        ELSE Nothing

\* re.search: the match at the leftmost position that has one.
SizeSearch(str) ==
    LET positions == {i \in 1 .. Len(str) : SizeMatchAt(str, i) # Nothing}
    IN  IF positions = {} THEN Nothing
        ELSE SizeMatchAt(str, CHOOSE i \in positions :
                                  \A j \in positions : i <= j)

RECURSIVE DigitsValue(_)
DigitsValue(ds) ==
    IF ds = <<>> THEN 0
    ELSE 10 * DigitsValue(SubSeq(ds, 1, Len(ds) - 1)) + DigitOf(ds[Len(ds)])

RECURSIVE Pow(_, _)
Pow(b, n) == IF n = 0 THEN 1 ELSE b * Pow(b, n - 1)

IsDigit(c) == c \in DigitChars

\* float(text) for a text of digits and dots: the value as num / den, or
\* ValueError when the text has no digit or more than one dot.
Float(text) ==
    LET dots == {i \in DOMAIN text : text[i] = "."}
        digits == SelectSeq(text, IsDigit)
    IN  IF Cardinality(dots) > 1 \/ digits = <<>>
        THEN [raised |-> "ValueError", num |-> 0, den |-> 1]
        ELSE [raised |-> None,
              num |-> DigitsValue(digits),
              den |-> IF dots = {} THEN 1
                      ELSE Pow(10, Len(text) - (CHOOSE i \in dots : TRUE))]

\* units[unit], as the exponent k of 1024^k.
UnitExponent(unit) ==
    CASE unit = <<"B">> -> 0
      [] unit = <<"K", "B">> -> 1
      [] unit = <<"M", "B">> -> 2
      [] unit = <<"G", "B">> -> 3
      [] unit = <<"T", "B">> -> 4
      [] unit = <<"P", "B">> -> 5

GiB == 1073741824

\* int(number * 1024^k) for number = num / den, as a Size.  The division by
\* den is done on the GiB count for k >= 3, so that no intermediate value
\* leaves 32 bits.
ScaleToBytes(num, den, k) ==
    IF k < 3
    THEN LET v == (num * Pow(1024, k)) \div den
         IN  Size(v \div GiB, v % GiB)
    ELSE LET g == num * Pow(1024, k - 3)
             r == g % den
         IN  Size(g \div den,
                  r * (GiB \div den) + (r * (GiB % den)) \div den)

\* parse_size(size_str)
parse_size(size_str) ==
    LET str == Strip(SelectSeq(size_str, NotParen))
        match == SizeSearch(str)
    IN  IF match = Nothing THEN Return(Size(0, 0))
        ELSE LET number == Float(The(match).number)
                 unit == [i \in DOMAIN The(match).unit |->
                             UpperChar(The(match).unit[i])]
             IN  IF number.raised # None
                 THEN [raised |-> number.raised, returned |-> Size(0, 0)]
                 ELSE Return(ScaleToBytes(number.num, number.den,
                                          UnitExponent(unit)))

\* The numbers written into the strings: the text, and the value meant
\* (Nothing for a text that is no number).
NumberTexts ==
    {[text |-> <<"0">>, value |-> Some(<<0, 1>>)],
     [text |-> <<"1">>, value |-> Some(<<1, 1>>)],
     [text |-> <<"3", "2">>, value |-> Some(<<32, 1>>)],
     [text |-> <<"1", "0", "0">>, value |-> Some(<<100, 1>>)],
     [text |-> <<"1", "0", "2", "4">>, value |-> Some(<<1024, 1>>)],
     [text |-> <<"1", ".", "5">>, value |-> Some(<<3, 2>>)],
     [text |-> <<"0", ".", "5">>, value |-> Some(<<1, 2>>)],
     [text |-> <<"3", "2", ".", "0">>, value |-> Some(<<32, 1>>)],
     [text |-> <<"1", ".", "2", ".", "3">>, value |-> Nothing],
     [text |-> <<".">>, value |-> Nothing],
     [text |-> <<>>, value |-> Nothing]}

\* The units written into the strings: the text, and the exponent meant
\* (Nothing for a text that is none of B, KB, MB, GB, TB, PB).
UnitTexts ==
    {[text |-> <<"B">>, value |-> Some(0)],
     [text |-> <<"K", "B">>, value |-> Some(1)],
     [text |-> <<"M", "B">>, value |-> Some(2)],
     [text |-> <<"G", "B">>, value |-> Some(3)],
     [text |-> <<"T", "B">>, value |-> Some(4)],
     [text |-> <<"P", "B">>, value |-> Some(5)],
     [text |-> <<"g", "b">>, value |-> Some(3)],
     [text |-> <<"X">>, value |-> Nothing],
     [text |-> <<>>, value |-> Nothing]}

\* '<number><gap><unit>', as diskutil prints it or in parentheses, and the
\* word "invalid".
SizeStrings ==
    {[text |-> (IF parens THEN <<"(">> ELSE <<>>) \o n.text \o gap \o u.text
                   \o (IF parens THEN <<")">> ELSE <<>>),
      number |-> n.value, unit |-> u.value] :
        n \in NumberTexts, gap \in {<<>>, <<" ">>}, u \in UnitTexts,
        parens \in BOOLEAN}
    \cup {[text |-> <<"i", "n", "v", "a", "l", "i", "d">>,
           number |-> Nothing, unit |-> Nothing]}

InitSize ==
    /\ NoSession
    /\ NoOrganizer
    /\ sd_in = Nothing /\ sd_out = Nothing
    /\ sj_in = Nothing /\ sj_out = Nothing
    /\ pr_in = Nothing /\ pr_out = Nothing
    /\ NoCommand
    /\ ps_in \in {Some(x) : x \in SizeStrings}
    /\ ps_out = Nothing

call_parse_size ==
    /\ ps_in # Nothing
    /\ ps_out = Nothing
    /\ ps_out' = Some(parse_size(The(ps_in).text))
    /\ UNCHANGED <<sessionVars, cmdVars, safeVars, orgVars, suspVars,
                   parseVars, ps_in>>

NextSize == call_parse_size

SpecSize == InitSize /\ [][NextSize]_vars

(* ============================== claims ================================= *)

Done == pc = "done"
Returned(v) == Done /\ outcome = v
Raised(e) == Done /\ outcome = "raised" /\ exc = e
Called(op) == Count(calls, op) > 0

\* A KeyboardInterrupt was raised while an except clause of run was already
\* running _cleanup: nothing catches it there.
HandlerInterrupted ==
    \E i \in DOMAIN interrupts : interrupts[i].handler # "none"

\* The verdict of the safety check on the session's device.
DeviceUnsafe ==
    /\ device_info # Nothing
    /\ ~is_safe_device(The(device_info), DEFAULT_MAX_SIZE_GB)[1]

\* C1: in a run on a device without the force override (skip_confirmation
\* not set), when is_safe_device finds the device unsafe no unmount and no
\* scan is ever started, and the run ends by raising UnsafeDeviceError (or
\* the KeyboardInterrupt that reached it first).
C1_UnsafeDeviceNeverTouched ==
    (~skip_confirmation /\ DeviceUnsafe) =>
        /\ ~Called("unmount")
        /\ ~Called("execute")
        /\ Done => /\ outcome = "raised"
                   /\ exc \in {"UnsafeDeviceError", KeyboardInterrupt}
                   /\ interrupts = <<>> => exc = "UnsafeDeviceError"

\* A mounted, unsafe device was rejected with UnsafeDeviceError.
C1_Witness ==
    /\ Raised("UnsafeDeviceError")
    /\ ~skip_confirmation
    /\ DeviceUnsafe
    /\ The(device_info).mount_point # None

\* C2: with force set (skip_confirmation), a device that fails
\* is_safe_device is not rejected with UnsafeDeviceError.
C2_ForceSkipsSafetyChecks ==
    (skip_confirmation /\ DeviceUnsafe) => firstError # "UnsafeDeviceError"

\* The decision table of C3, stated on its own: the four rules in order and
\* the reason each one gives.
TableRule(i, d, max_size_gb) ==
    CASE i = 1 -> d.device_number < 2
      [] i = 2 -> d.is_internal = TRUE
      [] i = 3 -> ~(\/ d.size_bytes.gib < max_size_gb
                    \/ d.size_bytes.gib = max_size_gb /\ d.size_bytes.rem = 0)
      [] i = 4 -> d.is_removable = FALSE

TableReason(i) ==
    CASE i = 1 -> R_DISK01
      [] i = 2 -> R_INTERNAL
      [] i = 3 -> R_TOO_LARGE
      [] i = 4 -> R_NOT_REMOVABLE

TableViolated(d, max_size_gb) == {i \in 1..4 : TableRule(i, d, max_size_gb)}

FirstViolated(d, max_size_gb) ==
    CHOOSE i \in TableViolated(d, max_size_gb) :
        \A j \in TableViolated(d, max_size_gb) : i <= j

\* C3: is_safe_device returns (False, reason of the first violated rule) in
\* the order ordinal <= 1, internal, size strictly above the threshold, not
\* removable, and (True, None) exactly when no rule is violated.
C3_DecisionTable ==
    sd_out # Nothing =>
        LET d == sd_in.device_info
            m == sd_in.max_size_gb
        IN  IF TableViolated(d, m) = {}
            THEN sd_out = <<TRUE, None>>
            ELSE sd_out = <<FALSE, TableReason(FirstViolated(d, m))>>

\* A removable external disk2+ whose size equals the threshold is safe.
C3_Witness ==
    /\ sd_out = <<TRUE, None>>
    /\ sd_in.device_info.size_bytes = Size(sd_in.max_size_gb, 0)
    /\ sd_in.max_size_gb = DEFAULT_MAX_SIZE_GB

\* C4: once the temporary scan directory was created, it has been deleted
\* exactly once and no longer exists when run returns or raises.
C4_TempDirRemovedExactlyOnce ==
    (Done /\ temp_dir # None) => (removals = 1 /\ ~tempExists)

\* C5: when the device had a mount point as Prepare began (an unmount was
\* started, was_mounted is set), mount_device has been attempted by the time
\* run returns or raises, after a success and after a failure of Prepare,
\* Scan or Organize alike.  (A KeyboardInterrupt raised inside an except
\* clause is the case of C6.)
C5_RemountAttempted ==
    /\ Called("unmount") => (device_info # Nothing /\ was_mounted)
    /\ (Done /\ Called("unmount") /\ ~HandlerInterrupted) => Called("mount")

\* The unmount failed and the device was remounted before MountError left run.
C5_Witness ==
    /\ Raised("MountError")
    /\ "unmount" \in failed
    /\ Called("mount")
    /\ mounted

\* A KeyboardInterrupt raised once Prepare has begun: during the unmount or
\* at any later statement.
InterruptedAfterPrepare ==
    \E i \in DOMAIN interrupts :
        \/ interrupts[i].at \in {"scan", "organize", "cleanup_mount",
                                 "cleanup_rmtree", "return"}
        \/ interrupts[i].at = "prepare" /\ interrupts[i].during

\* C6: a KeyboardInterrupt raised at any point after Prepare has begun
\* leaves run only after cleanup has run to completion (remount attempted
\* if was_mounted, removal of the temporary directory done or attempted),
\* and it is re-raised.
C6_CleanupBeforeInterruptPropagates ==
    (Done /\ InterruptedAfterPrepare) =>
        /\ outcome = "raised" /\ exc = KeyboardInterrupt
        /\ was_mounted => Called("mount")
        /\ temp_dir # None => (~tempExists \/ "rmtree" \in failed)

\* The operations of the try body that can fail, and the exception each
\* raises when it does.
BodyOps == {"validate_device_path", "get_device_info", "is_safe_device",
            "input", "unmount", "mkdtemp", "execute", "organize"}

ErrorOf(op) ==
    CASE op = "validate_device_path" -> "ValidationError"
      [] op = "get_device_info" -> "DeviceNotFoundError"
      [] op = "is_safe_device" -> "UnsafeDeviceError"
      [] op = "input" -> "EOFError"
      [] op = "unmount" -> "MountError"
      [] op = "mkdtemp" -> "OSError"
      [] op = "execute" -> "PhotoRecExecutionError"
      [] op = "organize" -> "OSError"

\* The error of the step that failed in the try body, None if none failed.
OriginatingError ==
    IF failed \cap BodyOps = {} THEN None
    ELSE ErrorOf(CHOOSE op \in failed \cap BodyOps : TRUE)

Affirmative == response = "y" \/ response = "yes"

\* C7: run returns True only if Confirm was passed or skipped, the tool
\* exited with status 0 and organize returned; it returns False only when
\* the user declined; otherwise it raises the exception of the first failing
\* step (a KeyboardInterrupt when that is what stopped the step).  (A
\* KeyboardInterrupt raised inside an except clause is the case of C6.)
C7_RunOutcome ==
    /\ Returned("True") =>
          /\ skip_confirmation \/ Affirmative
          /\ toolExit = "0"
          /\ Called("organize") /\ "organize" \notin failed
          /\ failed \cap BodyOps = {}
    /\ Returned("False") =>
          /\ ~skip_confirmation /\ response # None /\ ~Affirmative
          /\ calls = <<>>
    /\ (Done /\ ~skip_confirmation /\ response # None /\ ~Affirmative) =>
          outcome = "False"
    /\ (Done /\ outcome = "raised" /\ ~HandlerInterrupted) =>
          /\ Cardinality(failed \cap BodyOps) = 1 \/ interrupts # <<>>
          /\ exc = IF interrupts # <<>> THEN KeyboardInterrupt
                   ELSE OriginatingError

\* The user answered yes, every step succeeded, run returned True.
C7_Witness ==
    /\ Returned("True")
    /\ ~skip_confirmation
    /\ response = "yes"
    /\ device_info # Nothing

\* C8: when unmount_device fails in Prepare, execute is never called, no
\* temporary directory is created, the organizer is never constructed, and
\* run raises MountError.  (A KeyboardInterrupt raised inside an except
\* clause is the case of C6.)
C8_UnmountFailureAborts ==
    "unmount" \in failed =>
        /\ ~Called("execute")
        /\ ~Called("mkdtemp") /\ temp_dir = None /\ ~tempExists
        /\ ~Called("organize") /\ ~outputTouched
        /\ (Done /\ ~HandlerInterrupted) => Raised("MountError")

\* The unmount failed and nothing else was started but the remount.
C8_Witness ==
    /\ Raised("MountError")
    /\ "unmount" \in failed
    /\ calls = <<"unmount", "mount">>

CleanupOps == {"mount", "rmtree"}

\* C9: a failure inside _cleanup (mount_device or rmtree raising) does not
\* change the outcome: run still returns True when every step succeeded,
\* still raises the originating exception when a step failed (and the
\* KeyboardInterrupt when it was interrupted), never the cleanup error; and
\* after a failed remount the removal of the temporary directory is still
\* attempted.  (A KeyboardInterrupt raised inside an except clause is the
\* case of C6.)
C9_CleanupFailureKeepsOutcome ==
    (Done /\ failed \cap CleanupOps # {}) =>
        /\ (failed \cap BodyOps = {} /\ interrupts = <<>>) => outcome = "True"
        /\ (failed \cap BodyOps # {} /\ ~HandlerInterrupted) =>
              Raised(OriginatingError)
        /\ interrupts # <<>> => Raised(KeyboardInterrupt)
        /\ ("mount" \in failed /\ temp_dir # None /\ ~HandlerInterrupted) =>
              Called("rmtree")

\* Remount and removal both failed after a successful recovery: still True.
C9_Witness ==
    /\ Returned("True")
    /\ {"mount", "rmtree"} \subseteq failed
    /\ tempExists

\* C10: when the tool exits with a non-zero status, execute raises
\* PhotoRecExecutionError, the organizer is never invoked, nothing is
\* created under the output directory, and run re-raises the error after
\* cleanup.  (A KeyboardInterrupt raised inside an except clause is the case
\* of C6.)
C10_ToolFailure ==
    toolExit = "1" =>
        /\ "execute" \in failed
        /\ firstError = "PhotoRecExecutionError"
        /\ ~Called("organize")
        /\ ~outputTouched
        /\ (Done /\ ~HandlerInterrupted) =>
              /\ Raised("PhotoRecExecutionError")
              /\ cleanupPasses >= 1

\* The tool exited non-zero; cleanup removed the temporary directory and the
\* error reached the caller, the output directory untouched.
C10_Witness ==
    /\ Raised("PhotoRecExecutionError")
    /\ toolExit = "1"
    /\ removals = 1 /\ ~tempExists
    /\ ~outputTouched

\* The device was mounted when run was called.
InitiallyMounted ==
    target.info # Nothing /\ The(target.info).mount_point # None

\* The user was asked and did not answer y or yes.
Declined == ~skip_confirmation /\ response # None /\ response \notin {"y", "yes"}

\* C11: no unmount and no scan (no temporary directory, no tool run) is
\* started unless the user answered y or yes at Confirm or
\* skip_confirmation was set; when the user declines, run returns False with
\* no unmount performed, no temporary directory created and nothing written
\* to the output directory.
C11_NoWorkWithoutConsent ==
    /\ (Called("unmount") \/ Called("mkdtemp") \/ Called("execute")) =>
          (skip_confirmation \/ response \in {"y", "yes"})
    /\ Declined =>
          /\ Returned("False")
          /\ ~Called("unmount") /\ mounted = InitiallyMounted
          /\ ~Called("mkdtemp") /\ temp_dir = None /\ ~tempExists
          /\ ~Called("organize") /\ ~outputTouched

\* The user declined on a mounted, safe device: False, the device still
\* mounted.
C11_Witness ==
    /\ Returned("False")
    /\ response \in {"n", ""}
    /\ device_info # Nothing /\ The(device_info).mount_point # None
    /\ mounted

\* The target names an existing disk-image file.
ExistingImageFile == target.path.image_suffix /\ target.path.exists

\* C12: an existing disk-image file (suffix .img, .dmg or .iso; `test.img`
\* of the CLI help is one that is not under /dev/) is accepted by Validate:
\* validate_device_path does not fail on it and the run goes on to Step 2
\* with no DeviceInfo.
C12_ImageFileAccepted ==
    (ExistingImageFile /\ pc # "validate" /\ interrupts = <<>>) =>
        /\ "validate_device_path" \notin failed
        /\ firstError # "ValidationError"

\* What does hold for the image paths Validate lets through (those that
\* start with /dev/): no DeviceInfo, no safety verdict, no unmount, no
\* remount.
ImagePassedValidate ==
    (ExistingImageFile /\ target.path.under_dev) =>
        /\ device_info = Nothing
        /\ failed \cap {"validate_device_path", "is_safe_device"} = {}
        /\ ~Called("unmount") /\ ~Called("mount")

(* ------------------------- claims on organize --------------------------- *)

OrgDone == org_pc = "done"
OrgReturned == OrgDone /\ org_outcome = "returned"

\* The source file at position k is copied and its copy can be read: no I/O
\* error stops _process_file.
Processable(k) == source_files[k].kind \notin {"unreadable", "vanishes"}

AllProcessable == \A k \in DOMAIN source_files : Processable(k)

\* image_NNNNN.jpg for the number k (k < 100), written out digit by digit.
SequentialName(k) ==
    [stem |-> "image_", number |-> <<0, 0, 0, k \div 10, k % 10>>,
     suffix |-> ".jpg"]

\* C13: when organize returns on N source files that can all be copied and
\* read, it has produced exactly N artifacts, the k-th one made from the k-th
\* input file and named image_<k as 5 digits>.jpg (image_00001.jpg ...), and
\* no two artifacts share a filename.
C13_SequentialNames ==
    (OrgReturned /\ AllProcessable) =>
        /\ Len(recovered_files) = Len(source_files)
        /\ \A k \in DOMAIN recovered_files :
              /\ recovered_files[k].original_path = source_files[k].path
              /\ recovered_files[k].new_filename = SequentialName(k)
        /\ \A i, j \in DOMAIN recovered_files :
              i # j => recovered_files[i].new_filename
                          # recovered_files[j].new_filename

\* Three files, one of them not a JPEG at all, gave image_00001..image_00003.
C13_Witness ==
    /\ OrgReturned
    /\ AllProcessable
    /\ Len(source_files) = MaxFiles
    /\ Len(recovered_files) = MaxFiles
    /\ \E k \in DOMAIN source_files : source_files[k].kind = "not_jpeg"

\* The positions of the source files an artifact was returned for.
Organized == {recovered_files[i].original_path : i \in DOMAIN recovered_files}

\* C14: a source file whose copy or processing fails is skipped and nothing
\* else changes: organize goes through the whole list and never raises
\* before the reports (it raises only when a report itself cannot be
\* written), the artifacts returned are exactly those of the other files,
\* in input order, and when organize returns the manifest, the CSV and the
\* summary have been written over those artifacts.
C14_PerFileFailureSkipped ==
    OrgDone =>
        /\ idx > Len(source_files)
        /\ org_outcome = "raised" =>
              (manifest = Nothing \/ csv_rows = Nothing \/ summary = Nothing)
        /\ Organized = {k \in DOMAIN source_files : Processable(k)}
        /\ \A i, j \in DOMAIN recovered_files :
              i < j => recovered_files[i].original_path
                          < recovered_files[j].original_path
        /\ org_outcome = "returned" =>
              /\ manifest # Nothing /\ The(manifest).files = recovered_files
              /\ csv_rows # Nothing
              /\ Len(The(csv_rows)) = Len(recovered_files)
              /\ summary # Nothing
              /\ The(summary).total = Len(recovered_files)

\* A copy failed, a copy could not be read, and the third file was still
\* organized and reported.
C14_Witness ==
    /\ OrgReturned
    /\ {file_errors_k[2] : file_errors_k \in file_errors} = {"copy2", "stat"}
    /\ Len(recovered_files) = 1
    /\ The(manifest).total_files = 1

Linked(dir, a) == a.new_filename \in dir

\* C15: after organize into a fresh output directory, every returned
\* artifact is linked in exactly one of validation/valid and
\* validation/suspicious, in valid exactly when it is valid and not
\* suspicious.
C15_LinkedInExactlyOne ==
    OrgReturned =>
        \A i \in DOMAIN recovered_files :
            LET a == recovered_files[i] IN
            /\ Linked(valid_dir, a) # Linked(suspicious_dir, a)
            /\ Linked(valid_dir, a) <=> (a.is_valid /\ ~a.is_suspicious)

\* What does hold of the links: none is ever in both collections or in the
\* wrong one, a failed link creation never stops organize, and with symbolic
\* links available every artifact is in exactly one collection.
LinksWhenSupported ==
    /\ valid_dir \cap suspicious_dir = {}
    /\ \A i \in DOMAIN recovered_files :
          LET a == recovered_files[i] IN
          /\ Linked(valid_dir, a) => (a.is_valid /\ ~a.is_suspicious)
          /\ Linked(suspicious_dir, a) => (a.is_suspicious \/ ~a.is_valid)
          /\ symlinks_supported =>
                (Linked(valid_dir, a) \/ Linked(suspicious_dir, a))
    /\ \A e \in file_errors : e[2] \in {"copy2", "stat"}

\* C16: with validation disabled every artifact has is_valid = false and
\* is_suspicious = false, nothing is linked into the valid collection, and
\* the manifest's valid_files is 0.
C16_UnvalidatedNeverValid ==
    (org_pc # "idle" /\ ~validate_files) =>
        /\ \A i \in DOMAIN recovered_files :
              /\ recovered_files[i].is_valid = FALSE
              /\ recovered_files[i].is_suspicious = FALSE
        /\ valid_dir = {}
        /\ manifest # Nothing => The(manifest).valid_files = 0

\* A sound 640x480 JPEG organized without validation: recorded as not valid
\* and linked under suspicious.
C16_Witness ==
    /\ OrgReturned
    /\ ~validate_files
    /\ symlinks_supported
    /\ \E i \in DOMAIN recovered_files :
          /\ source_files[recovered_files[i].original_path]
                = SourceFile(File("jpeg", 640, 480, 2048),
                             recovered_files[i].original_path)
          /\ Linked(suspicious_dir, recovered_files[i])
    /\ The(manifest).total_files > 0

\* C17: the manifest's total_files is the length of its files list, the
\* number of CSV data rows and the summary's total; valid_files and
\* suspicious_files are the numbers of artifacts of that list with is_valid
\* and with is_suspicious, and the summary shows the same two counts.
C17_ReportCountsAgree ==
    /\ manifest # Nothing =>
          LET m == The(manifest) IN
          /\ m.total_files = Len(m.files)
          /\ m.valid_files =
                Cardinality({i \in DOMAIN m.files : m.files[i].is_valid})
          /\ m.suspicious_files =
                Cardinality({i \in DOMAIN m.files : m.files[i].is_suspicious})
    /\ csv_rows # Nothing => Len(The(csv_rows)) = The(manifest).total_files
    /\ summary # Nothing =>
          /\ The(summary).total = The(manifest).total_files
          /\ The(summary).valid = The(manifest).valid_files
          /\ The(summary).suspicious = The(manifest).suspicious_files
    /\ OrgReturned => (manifest # Nothing /\ csv_rows # Nothing /\ summary # Nothing)

\* Three artifacts: two valid, one of them suspicious, one invalid; all
\* three reports agree.
C17_Witness ==
    /\ OrgReturned
    /\ The(manifest).total_files = 3
    /\ The(manifest).valid_files = 2
    /\ The(summary).suspicious = 1
    /\ Len(The(csv_rows)) = 3

\* What validate_jpeg may give back: no exception, (False, None) for
\* everything that is not a sound JPEG, metadata only next to True.
ValidationOk(file, v) ==
    /\ v.raised = None
    /\ v.returned[2] # Nothing => v.returned[1] = TRUE
    /\ file.kind # "jpeg" => v.returned = <<FALSE, Nothing>>

\* C19: validate_jpeg never raises: for a missing, unreadable, truncated,
\* non-JPEG or corrupt file it returns (False, None), and it returns
\* metadata only with is_valid = True; so with validation on organize goes
\* through the whole list and returns an artifact for every file it could
\* copy, whichever of them are corrupt.
C19_ValidateNeverRaises ==
    /\ \A f \in Files : ValidationOk(f, validate_jpeg(f))
    /\ \A i \in DOMAIN validations : validations[i].raised = None
    /\ (OrgDone /\ validate_files) =>
          /\ idx > Len(source_files)
          /\ Organized = {k \in DOMAIN source_files : Processable(k)}
          /\ \A e \in file_errors : e[2] \in {"copy2", "stat"}

\* A batch of an undecodable file, a file that breaks the decoder and a
\* JPEG that fails verify(): three artifacts, none valid.
C19_Witness ==
    /\ OrgReturned
    /\ validate_files
    /\ {source_files[k].kind : k \in DOMAIN source_files}
          = {"undecodable", "unexpected", "corrupt"}
    /\ Len(recovered_files) = 3
    /\ Len(validations) = 3
    /\ \A i \in DOMAIN recovered_files : ~recovered_files[i].is_valid

(* --------------------- claims on is_suspicious_jpeg --------------------- *)

\* The field is absent (read as 0) or below the limit.
Below(field, limit) == field = Nothing \/ The(field) < limit

\* The rule of C18, stated on its own.
SuspiciousByRule(metadata) ==
    \/ metadata = Nothing
    \/ LET d == The(metadata) IN
       \/ (d.width = Nothing /\ d.height = Nothing /\ d.size_bytes = Nothing
             /\ d.others = FALSE)
       \/ Below(d.width, 10)
       \/ Below(d.height, 10)
       \/ Below(d.size_bytes, 1024)
       \/ /\ d.width # Nothing /\ d.height # Nothing
          /\ LET w == The(d.width)
                 h == The(d.height)
             IN  (IF w > h THEN w ELSE h) > 10 * (IF w > h THEN h ELSE w)

\* C18: is_suspicious_jpeg returns true exactly when the metadata is missing
\* or empty, or width < 10, or height < 10, or size_bytes < 1024 (an absent
\* entry counting as 0), or the long side is more than 10 times the short
\* side; and it always returns a boolean, never raising (no division by
\* zero).
C18_SuspicionRule ==
    sj_out # Nothing =>
        /\ The(sj_out).raised = None
        /\ The(sj_out).returned \in BOOLEAN
        /\ The(sj_out).returned <=> SuspiciousByRule(The(sj_in))

\* Width 10, height 100 (ratio exactly 10), 1024 bytes: not suspicious.
C18_Witness ==
    /\ sj_in = Some(Some(Dict(Some(10), Some(100), Some(1024), TRUE)))
    /\ sj_out = Some(Return(FALSE))

(* ----------------------- claims on _parse_results ----------------------- *)

\* The N of each output line tried that reads 'N file(s) recovered' (of its
\* first such phrase); -1 for a line that is no summary line.
SummaryCount(line) ==
    CASE line = <<Num(<<7>>), Word("files"), Word("recovered")>> -> 7
      [] line = <<Num(<<1>>), Word("file"), Word("recovered")>> -> 1
      [] line = <<Word("PhotoRec:"), Num(<<1, 2>>), Word("Files"),
                  Word("RECOVERED")>> -> 12
      [] line = <<Num(<<0, 2>>), Word("files"), Word("recovered"),
                  Num(<<9>>), Word("files"), Word("recovered")>> -> 2
      [] OTHER -> -1

\* The .jpg and .JPG files inside the recup_dir.* sub-directories.
JpegsInRecupDirs(listing) ==
    {p \in (DOMAIN listing) \X ChildNames :
        /\ listing[p[1]].recup
        /\ listing[p[1]].is_dir
        /\ p[2] \in listing[p[1]].children
        /\ p[2].suffix \in {".jpg", ".JPG"}}

\* C20: recovered_files is exactly the set of .jpg/.JPG files inside the
\* recup_dir.* sub-directories (each listed once), and files_recovered is
\* the maximum of len(recovered_files) and the largest N of the 'N files
\* recovered' lines; so files_recovered >= len(recovered_files).
C20_ParseResults ==
    pr_out # Nothing =>
        LET listing == The(pr_in).listing
            lines == The(pr_in).output_lines
            out == The(pr_out)
            found == {out.recovered_files[i] : i \in DOMAIN out.recovered_files}
            counts == {SummaryCount(lines[k]) : k \in DOMAIN lines}
                         \cup {Len(out.recovered_files)}
        IN  /\ found = JpegsInRecupDirs(listing)
            /\ Cardinality(found) = Len(out.recovered_files)
            /\ out.files_recovered \in counts
            /\ \A n \in counts : n <= out.files_recovered
            /\ out.files_recovered >= Len(out.recovered_files)

\* Two files on disk, summary lines of 12 and then 7: files_recovered is 12.
C20_Witness ==
    /\ pr_out # Nothing
    /\ Len(The(pr_out).recovered_files) = 2
    /\ The(pr_out).files_recovered = 12
    /\ Len(The(pr_in).output_lines) = 2
    /\ SummaryCount(The(pr_in).output_lines[2]) = 7

(* ------------------- claims on the session, continued ------------------ *)

\* C24: within one run, unmount_device is invoked at most once and
\* mount_device is invoked at most once, on every path, also when a
\* KeyboardInterrupt arrives during or after the Step-7 cleanup.
C24_MountAtMostOnce ==
    /\ Count(calls, "unmount") <= 1
    /\ Count(calls, "mount") <= 1

\* C27: for a device that has no mount point when run is called, and for a
\* disk image, was_mounted stays false, unmount_device and mount_device are
\* never called, and the mount state is what it was, on every path.
C27_UnmountedDeviceLeftAlone ==
    ~InitiallyMounted =>
        /\ was_mounted = FALSE
        /\ ~Called("unmount")
        /\ ~Called("mount")
        /\ mounted = FALSE

\* A run on a device without mount point went through Prepare, Scan,
\* Organize and the cleanup, and returned True.
C27_Witness ==
    /\ target.info # Nothing
    /\ ~InitiallyMounted
    /\ Returned("True")
    /\ calls = <<"mkdtemp", "execute", "organize", "rmtree">>

\* The step a statement of run belongs to, Validate = 1 .. CleanUp = 7.
StepOfPc(p) ==
    CASE p = "validate" -> 1
      [] p = "safety" -> 2
      [] p = "confirm" -> 3
      [] p = "prepare" -> 4
      [] p = "scan" -> 5
      [] p = "organize" -> 6
      [] OTHER -> 7

\* The step an operation belongs to.
StepOfOp(op) ==
    CASE op \in {"validate_device_path", "get_device_info"} -> 1
      [] op = "is_safe_device" -> 2
      [] op = "input" -> 3
      [] op = "unmount" -> 4
      [] op \in {"mkdtemp", "execute"} -> 5
      [] op = "organize" -> 6
      [] OTHER -> 7

\* The position of an operation in a run without failure.
OrderOfOp(op) ==
    CASE op = "unmount" -> 1
      [] op = "mkdtemp" -> 2
      [] op = "execute" -> 3
      [] op = "organize" -> 4
      [] OTHER -> 5

\* The last step of the try body any operation of which was started.
StartedUpTo(s) ==
    \A i \in DOMAIN calls : calls[i] \notin CleanupOps => StepOfOp(calls[i]) <= s

\* C25: the steps run in the order Validate, SafetyCheck, Confirm, Prepare,
\* Scan, Organize, CleanUp, each only after the one before completed without
\* error; after a failure or an interrupt nothing but cleanup runs; the scan
\* starts only after the unmount completed, organize only after a
\* successful scan, and the temporary directory is not removed before
\* organize has finished.
C25_StepsInOrder ==
    /\ \A i, j \in DOMAIN calls : i < j =>
          /\ calls[i] \in CleanupOps => calls[j] \in CleanupOps
          /\ calls[j] \notin CleanupOps => OrderOfOp(calls[i]) < OrderOfOp(calls[j])
    /\ pc \in {"validate", "safety", "confirm", "prepare", "scan", "organize"} =>
          /\ handler = "none" /\ firstError = None
          /\ failed \cap BodyOps = {}
          /\ StartedUpTo(StepOfPc(pc) - 1)
    /\ pc \in {"confirm", "prepare", "scan", "organize"} => ~DeviceUnsafe
    /\ pc \in {"prepare", "scan", "organize"} =>
          (skip_confirmation \/ Affirmative)
    /\ (pc = "scan" \/ Called("mkdtemp")) =>
          IF InitiallyMounted
          THEN calls[1] = "unmount" /\ "unmount" \notin failed
          ELSE ~Called("unmount")
    /\ pc = "scan" => mounted = FALSE
    /\ (pc = "organize" \/ Called("organize")) =>
          /\ Called("execute") /\ "execute" \notin failed
          /\ toolExit = "0"
    /\ pc = "organize" => tempExists /\ removals = 0 /\ ~Called("rmtree")
    /\ (pc \in {"cleanup_mount", "cleanup_rmtree", "return"} /\ handler = "none") =>
          /\ Called("organize")
          /\ failed \cap BodyOps = {}
    /\ \A op \in failed \cap BodyOps : StartedUpTo(StepOfOp(op))
    /\ \A i \in DOMAIN interrupts :
          (interrupts[i].handler = "none" /\ StepOfPc(interrupts[i].at) < 7) =>
              StartedUpTo(IF interrupts[i].during
                          THEN StepOfPc(interrupts[i].at)
                          ELSE StepOfPc(interrupts[i].at) - 1)
    /\ Declined => calls = <<>>

\* A run on a mounted device went through every step in order and returned
\* True.
C25_Witness ==
    /\ Returned("True")
    /\ calls = <<"unmount", "mkdtemp", "execute", "organize", "mount", "rmtree">>
    /\ failed = {}

\* C26: whenever Confirm is skipped, the danger warning has been emitted
\* before the device is prepared or scanned, whichever way run was reached
\* (recover_cmd with --force, recover(force=True), run(skip_confirmation=True)).
C26_SkipIsWarned ==
    (skip_confirmation /\ (pc = "prepare" \/ Called("unmount") \/ Called("mkdtemp")))
        => warned

\* A KeyboardInterrupt reached recover_cmd: every KeyboardInterrupt raised
\* in run or in the version check leaves it.
InterruptReachedCli == interrupts # <<>>

\* C22: recover_cmd exits with 0 exactly when the session returned True,
\* with 130 exactly when a KeyboardInterrupt reached it, and with 1
\* otherwise (declined confirmation, photorec not found, an SDRecoveryError,
\* an unexpected exception).
C22_ExitCodes ==
    exit_code # Nothing =>
        /\ The(exit_code) \in {0, 1, 130}
        /\ (The(exit_code) = 0) = Returned("True")
        /\ (The(exit_code) = 130) = InterruptReachedCli
        /\ Returned("False") => The(exit_code) = 1
        /\ "PhotoRecWrapper" \in failed => The(exit_code) = 1
        /\ (failed \cap BodyOps # {} /\ ~InterruptReachedCli) => The(exit_code) = 1

\* The user declined the confirmation of a session started by recover_cmd,
\* and the command exited with 1.
C22_Witness ==
    /\ entry = "cli"
    /\ Declined
    /\ Returned("False")
    /\ exit_code = Some(1)

(* --------------------- claims on organize, continued -------------------- *)

\* C28: every artifact that is suspicious is also valid (a file that fails
\* validation has no metadata and is never checked for suspicion), so in
\* every manifest suspicious_files <= valid_files <= total_files.
C28_SuspiciousImpliesValid ==
    /\ \A i \in DOMAIN recovered_files :
          /\ recovered_files[i].is_suspicious => recovered_files[i].is_valid
          /\ ~recovered_files[i].is_valid =>
                (recovered_files[i].width = Nothing
                    /\ recovered_files[i].height = Nothing)
    /\ manifest # Nothing =>
          /\ The(manifest).suspicious_files <= The(manifest).valid_files
          /\ The(manifest).valid_files <= The(manifest).total_files

\* A validated run returned a suspicious JPEG, a sound one and a file that
\* failed validation: 1 < 2 < 3 in the manifest.
C28_Witness ==
    /\ OrgReturned
    /\ validate_files
    /\ \E i \in DOMAIN recovered_files :
          recovered_files[i].is_suspicious /\ recovered_files[i].is_valid
    /\ \E i \in DOMAIN recovered_files :
          ~recovered_files[i].is_valid /\ ~recovered_files[i].is_suspicious
    /\ The(manifest).suspicious_files = 1
    /\ The(manifest).valid_files = 2
    /\ The(manifest).total_files = 3

\* The number printed in an artifact's filename.
FileNumber(name) ==
    name.number[1] * 10000 + name.number[2] * 1000 + name.number[3] * 100
        + name.number[4] * 10 + name.number[5]

\* The source files organize skipped.
Skipped == {k \in DOMAIN source_files : ~Processable(k)}

\* C30: an artifact's number is the 1-based position of its source file in
\* the input list, also after earlier files were skipped: a skipped file
\* uses up its number, the filenames are strictly increasing in input order,
\* and organize ends with N minus the number of skipped files artifacts.
C30_NumberIsInputPosition ==
    /\ \A i \in DOMAIN recovered_files :
          /\ Len(recovered_files[i].new_filename.number) = 5
          /\ FileNumber(recovered_files[i].new_filename)
                = recovered_files[i].original_path
          /\ recovered_files[i].new_filename
                = SequentialName(recovered_files[i].original_path)
    /\ \A i, j \in DOMAIN recovered_files :
          i < j => FileNumber(recovered_files[i].new_filename)
                      < FileNumber(recovered_files[j].new_filename)
    /\ \A k \in Skipped :
          \A i \in DOMAIN recovered_files :
              FileNumber(recovered_files[i].new_filename) # k
    /\ OrgDone =>
          Len(recovered_files) = Len(source_files) - Cardinality(Skipped)

\* The first and the middle file of three could not be copied: the only
\* artifact is image_00003.jpg.
C30_Witness ==
    /\ OrgReturned
    /\ Len(source_files) = 3
    /\ Skipped = {1, 2}
    /\ source_files[1].kind = "unreadable"
    /\ Len(recovered_files) = 1
    /\ recovered_files[1].new_filename = SequentialName(3)

\* The artifact is classified valid: valid and not suspicious.
ClassifiedValid(a) == a.is_valid /\ ~a.is_suspicious

\* C29: after any sequence of organize calls into the same output directory,
\* no filename is linked both in validation/valid and in
\* validation/suspicious, and the directory a filename is linked in matches
\* its classification in the manifest written last.
C29_LinksConsistentAcrossRuns ==
    OrgReturned =>
        /\ valid_dir \cap suspicious_dir = {}
        /\ \A i \in DOMAIN The(manifest).files :
              LET a == The(manifest).files[i] IN
              /\ Linked(valid_dir, a) => ClassifiedValid(a)
              /\ Linked(suspicious_dir, a) => ~ClassifiedValid(a)

(* ------------------------ claims on build_command ----------------------- *)

\* The types build_command was asked for: jpg when none were given.
RequestedTypes ==
    IF The(bc_in).file_types = Nothing THEN <<"jpg">>
    ELSE The(The(bc_in).file_types)

\* C21: build_command returns [photorec, '/d', output_dir, '/cmd', target,
\* opts], where opts, one comma-joined string, begins with
\* fileopt,everything,disable, goes on with one fileopt,<type>,enable per
\* requested type in request order (jpg alone when no types are given),
\* then options,paranoid exactly when paranoid is set, and ends with search.
C21_CommandLayout ==
    (bc_out # Nothing /\ The(bc_out).raised = None) =>
        LET cmd == The(bc_out).returned
            n == Len(RequestedTypes)
        IN  /\ Len(cmd) = 6
            /\ cmd[1] = The(bc_in).photorec_path
            /\ cmd[2] = "/d"
            /\ cmd[3] = The(bc_in).output_dir.name
            /\ cmd[4] = "/cmd"
            /\ cmd[5] = The(bc_in).device_path
            /\ Len(cmd[6]) = 3 + 3 * n + (IF The(bc_in).paranoid THEN 2 ELSE 0) + 1
            /\ SubSeq(cmd[6], 1, 3) = <<"fileopt", "everything", "disable">>
            /\ \A k \in 1 .. n :
                  SubSeq(cmd[6], 3 * k + 1, 3 * k + 3)
                      = <<"fileopt", RequestedTypes[k], "enable">>
            /\ The(bc_in).paranoid =>
                  SubSeq(cmd[6], 3 * n + 4, 3 * n + 5) = <<"options", "paranoid">>
            /\ cmd[6][Len(cmd[6])] = "search"

\* png and jpg requested in that order, in paranoid mode.
C21_Witness ==
    /\ bc_out # Nothing
    /\ The(bc_in).paranoid
    /\ The(bc_in).file_types = Some(<<"png", "jpg">>)
    /\ The(bc_out).raised = None
    /\ The(bc_out).returned[6]
          = <<"fileopt", "everything", "disable", "fileopt", "png", "enable",
              "fileopt", "jpg", "enable", "options", "paranoid", "search">>

(* ------------------------- claims on parse_size ------------------------- *)

\* The string is '<number> <unit>' with a number and one of the six units.
NumberAndUnit == The(ps_in).number # Nothing /\ The(ps_in).unit # Nothing

\* sz is floor(p / q * 1024^k) bytes, q being 1 or 2: stated on the whole
\* GiB and the remaining bytes.
IsFloorBytes(sz, p, q, k) ==
    /\ sz.gib >= 0
    /\ sz.rem \in 0 .. GiB - 1
    /\ IF k < 3
       THEN /\ sz.gib \in {0, 1}
            /\ sz.gib * GiB + sz.rem = (p * Pow(1024, k)) \div q
       ELSE LET d == p * Pow(1024, k - 3) - q * sz.gib
            IN  /\ d \in 0 .. q - 1
                /\ q * sz.rem <= d * GiB
                /\ d * GiB < q * sz.rem + q

\* The examples of C23.
ParseSizeExamples ==
    LET text == The(ps_in).text
        bytes == The(ps_out).returned
    IN  /\ text = <<"1", "0", "2", "4", " ", "B">> => bytes = Size(0, 1024)
        /\ text = <<"1", " ", "K", "B">> => bytes = Size(0, 1024)
        /\ text = <<"3", "2", " ", "G", "B">> => bytes = Size(32, 0)
        /\ text = <<"1", ".", "5", " ", "G", "B">> =>
              bytes = Size(1, 1610612736 - GiB)
        /\ text = <<"i", "n", "v", "a", "l", "i", "d">> => bytes = Size(0, 0)

\* C23: parse_size maps '<number> <unit>', unit one of B, KB, MB, GB, TB, PB,
\* to floor(number * 1024^k) bytes, decimal numbers included, and returns 0
\* for input with no parsable number-and-unit; "1024 B" is 1024, "1 KB" is
\* 1024, "32 GB" is 32 * 1024^3, "1.5 GB" is 1610612736, "invalid" is 0.
C23_ParseSize ==
    ps_out # Nothing =>
        /\ The(ps_out).raised = None
        /\ NumberAndUnit =>
              IsFloorBytes(The(ps_out).returned, The(The(ps_in).number)[1],
                           The(The(ps_in).number)[2], The(The(ps_in).unit))
        /\ ~NumberAndUnit => The(ps_out).returned = Size(0, 0)
        /\ ParseSizeExamples

\* The part of C23 the code keeps: whenever parse_size returns, it returns
\* what C23 says.
ParseSizeWhenItReturns ==
    (ps_out # Nothing /\ The(ps_out).raised = None) =>
        /\ NumberAndUnit =>
              IsFloorBytes(The(ps_out).returned, The(The(ps_in).number)[1],
                           The(The(ps_in).number)[2], The(The(ps_in).unit))
        /\ ~NumberAndUnit => The(ps_out).returned = Size(0, 0)
        /\ ParseSizeExamples

(* ------------------- claims on the session, last part ------------------- *)

\* diskutil names USB as the target's protocol.
UsbTarget == target.info # Nothing /\ The(target.info).protocol_usb

\* C34: get_device_info reports a device whose Protocol contains usb as
\* removable and not internal, whatever its Device Location and Removable
\* Media fields say; so a USB device with ordinal >= 2 and a size within
\* the threshold is safe for is_safe_device even when it reports an
\* internal location, and the session goes past the safety check.
C34_UsbOverridesLocation ==
    (device_info # Nothing /\ UsbTarget) =>
        /\ The(device_info).is_removable
        /\ ~The(device_info).is_internal
        /\ (/\ The(target.info).number >= 2
            /\ ~ExceedsThreshold(The(target.info).size, DEFAULT_MAX_SIZE_GB)) =>
                /\ is_safe_device(The(device_info), DEFAULT_MAX_SIZE_GB)
                      = <<TRUE, None>>
                /\ "is_safe_device" \notin failed

\* A USB device that diskutil calls internal and not removable, disk2 or
\* above, 32 GB: the session passed the safety check and scanned it.
C34_Witness ==
    /\ UsbTarget
    /\ The(target.info).location_internal
    /\ ~The(target.info).removable_media
    /\ The(target.info).number >= 2
    /\ The(target.info).size = Size(32, 0)
    /\ device_info # Nothing
    /\ Called("execute")
    /\ Returned("True")

\* A path of the form /dev/rdisk...
IsRawPath(path) ==
    Len(path) >= 3 /\ path[1] = "/dev/" /\ path[2] = "r" /\ path[3] = "disk"

\* The path with a leading /dev/disk turned into /dev/rdisk.
WithRawPrefix(path) ==
    IF Len(path) >= 2 /\ SubSeq(path, 1, 2) = <<"/dev/", "disk">>
    THEN <<"/dev/", "r", "disk">> \o SubSeq(path, 3, Len(path))
    ELSE path

ScanOnRawOrGiven(c) ==
    c.op = "execute" =>
        c.path = IF device_info # Nothing
                 THEN WithRawPrefix(self_device_path)
                 ELSE self_device_path

\* C32, as amended: the scan is run on the raw path (the device path with
\* /dev/disk replaced by /dev/rdisk) whenever a DeviceInfo exists and on the
\* given path for image targets, while unmount and remount are issued against
\* the device path exactly as the caller gave it.
C32_ScanRawMountAsGiven ==
    \A i \in DOMAIN issued :
        /\ ScanOnRawOrGiven(issued[i])
        /\ issued[i].op \in {"unmount", "mount"} =>
               issued[i].path = self_device_path

\* C32, as stated: ... while unmount and remount are always issued against
\* the ordinary (non-raw) device path given by the caller.
C32_MountOnOrdinaryPath ==
    \A i \in DOMAIN issued :
        /\ ScanOnRawOrGiven(issued[i])
        /\ issued[i].op \in {"unmount", "mount"} =>
               /\ issued[i].path = self_device_path
               /\ ~IsRawPath(issued[i].path)

\* A mounted /dev/disk2 recovered to the end: unmounted and remounted as
\* /dev/disk2, scanned as /dev/rdisk2.
C32_Witness ==
    /\ self_device_path = <<"/dev/", "disk", "2">>
    /\ Returned("True")
    /\ issued = <<Issue("unmount", <<"/dev/", "disk", "2">>),
                  Issue("execute", <<"/dev/", "r", "disk", "2">>),
                  Issue("mount", <<"/dev/", "disk", "2">>)>>

\* The photorec executable was not found: by the command's own
\* PhotoRecWrapper() or by the one the session constructor creates.
ToolNotFound == failed \cap {"PhotoRecWrapper", "_find_photorec"} # {}

\* C31: if the external tool executable cannot be found,
\* PhotoRecNotFoundError is raised when the session is constructed, before
\* Validate: run is never entered, and no device query, no unmount, no
\* temporary directory and no output directory is ever made in that case.
C31_ToolNotFoundAtConstruction ==
    /\ "_find_photorec" \in failed =>
          /\ pc = "unconstructed"
          /\ exc = "PhotoRecNotFoundError"
          /\ outcome = "running"
    /\ ToolNotFound =>
          /\ pc \in {"exited", "unconstructed"}
          /\ failed \subseteq {"PhotoRecWrapper", "_find_photorec"}
          /\ device_info = Nothing
          /\ calls = <<>> /\ issued = <<>>
          /\ mounted = InitiallyMounted
          /\ ~was_mounted
          /\ temp_dir = None /\ ~tempExists
          /\ ~outputTouched
    /\ pc \notin {"cli_check", "exited", "construct", "unconstructed"} =>
          ~ToolNotFound

\* recover() on a mounted device without photorec installed: the constructor
\* raised and nothing else happened.
C31_Witness ==
    /\ entry = "recover"
    /\ InitiallyMounted
    /\ "_find_photorec" \in failed
    /\ exc = "PhotoRecNotFoundError"
    /\ mounted

(* -------------------- claims on organize, last part --------------------- *)

\* C33: organize copies and never moves: every source file it was given
\* still exists unmodified at its original path (while organize runs and
\* after it returns), and each artifact's original_path records the path of
\* the source file it was copied from.
C33_CopyNeverMoves ==
    /\ DOMAIN source_dir = DOMAIN source_files
    /\ \A k \in DOMAIN source_files :
          source_dir[k] = Some(File(source_files[k].kind, source_files[k].width,
                                    source_files[k].height,
                                    source_files[k].size_bytes))
    /\ \A i \in DOMAIN recovered_files :
          LET k == FileNumber(recovered_files[i].new_filename) IN
          /\ k \in DOMAIN source_files
          /\ recovered_files[i].original_path = source_files[k].path
          /\ source_dir[k] # Nothing
          /\ recovered_files[i].size_bytes = The(source_dir[k]).size_bytes

\* organize has returned two artifacts made from three source files.
C33_Witness ==
    /\ OrgReturned
    /\ Len(source_files) = 3
    /\ Len(recovered_files) = 2
    /\ \A k \in 1 .. 3 : source_dir[k] # Nothing

====
